---- MODULE Spec2Model ----
(***************************************************************************)
(* A model of the item store, the content sources and the prompt          *)
(* generator of vscode-files2prompt (src/core/PromptItemStore.ts,          *)
(* src/commands/CommandRegistry.ts, src/services/PromptGenerator.ts,       *)
(* src/services/FormatterService.ts, src/providers/*.ts).                  *)
(*                                                                         *)
(* Text is modelled as a sequence of string tokens: a path is a sequence   *)
(* of one-character tokens, a literal of the source is one token, and      *)
(* template strings are concatenations (\o) of the two. A character of a   *)
(* literal outside ASCII is written as its \uXXXX escape.                  *)
(***************************************************************************)
EXTENDS Integers, Sequences, FiniteSets, TLC

\* ------------------------------------------------------------------ bounds
\* Number of item objects ever created (uuidv4 ids are modelled as 1..MaxIds).
MaxIds == 3

Ids == 1..MaxIds
\* JavaScript's undefined, where an item (id) is expected.
Undefined == 0

VARIABLES
  items,    \* PromptItemStore.items: the array, as a sequence of object ids
  heap,     \* the item objects: id -> fields (objects are shared by reference)
  nextId,   \* next fresh object id
  lastOp,   \* the most recent store call: its name, arguments, result and the
            \* events it fired (what a subscribed listener received)
  cmds,     \* the running add commands: each one's position and local variables
  world,    \* the resources content is read from: resource -> what a read yields
  gen,      \* the running generate call: its position and local variables
  config,   \* FormatterService.config, as loaded from the settings
  held,     \* the array a caller of getAll() holds, and may change
  ignore,   \* IgnoreService.config, and the last question put to the service
  formatted \* the last call of FormatterService.format: its arguments and result

storeVars == <<items, heap, nextId, lastOp>>
\* What the store's own calls leave alone.
genVars == <<world, gen, config, formatted, held, ignore>>
others == <<cmds, world, gen, config, formatted, held, ignore>>

\* ------------------------------------------------------------ item objects
NoText == <<>>

\* PromptContent = string | DynamicContentGenerator (types/index.ts:24-29).
\* k = "str": v is the string. k = "fn": a closure over uri, of producer gen.
StrContent(v) == [k |-> "str", v |-> v, gen |-> "none", uri |-> NoText]
FnContent(producer, uri) == [k |-> "fn", v |-> NoText, gen |-> producer, uri |-> uri]

\* An object that has not been created yet.
NoItem ==
  [id |-> Undefined, type |-> "none", title |-> NoText, content |-> StrContent(NoText),
   mode |-> "none", index |-> 0, filePath |-> NoText, language |-> NoText,
   lineStart |-> 0, lineEnd |-> 0]

\* An update that puts the partial object in the item's place.
ObjectAssignReplace(target, updates) ==
  [f \in DOMAIN target |-> IF f \in DOMAIN updates THEN updates[f] ELSE NoItem[f]]

\* Object.assign(target, updates): the fields named by updates are overwritten.
ObjectAssign(target, updates) ==
  [f \in DOMAIN target |-> IF f \in DOMAIN updates THEN updates[f] ELSE target[f]]

\* ------------------------------------------------------- array primitives
Min(a, b) == IF a < b THEN a ELSE b
Max(a, b) == IF a > b THEN a ELSE b

\* Array.prototype.splice's normalisation of its start argument.
SpliceStart(s, start) ==
  IF start < 0 THEN Max(Len(s) + start, 0) ELSE Min(start, Len(s))

\* s.splice(start, 1): the array left, and the removed elements.
SpliceRemove(s, start) ==
  LET st == SpliceStart(s, start)
  IN IF st < Len(s)
       THEN [rest |-> SubSeq(s, 1, st) \o SubSeq(s, st + 2, Len(s)),
             removed |-> <<s[st + 1]>>]
       ELSE [rest |-> s, removed |-> <<>>]

\* const [x] = array
First(removed) == IF Len(removed) > 0 THEN removed[1] ELSE Undefined

\* s.splice(start, 0, x)
SpliceInsert(s, start, x) ==
  LET st == SpliceStart(s, start)
  IN SubSeq(s, 1, st) \o <<x>> \o SubSeq(s, st + 1, Len(s))

\* this.items.findIndex(item => item.id === id): 0-based, -1 when absent.
FindIndex(its, hp, id) ==
  IF \E i \in 1..Len(its) : its[i] # Undefined /\ hp[its[i]].id = id
    THEN (CHOOSE i \in 1..Len(its) :
            /\ its[i] # Undefined /\ hp[its[i]].id = id
            /\ \A j \in 1..(i - 1) : ~(its[j] # Undefined /\ hp[its[j]].id = id)) - 1
    ELSE -1

\* ---------------------------------------------------------- PromptItemStore
\* What a listener reading the store inside its callback sees: the items in
\* array order with their current fields.
View(its, hp) == [i \in 1..Len(its) |-> IF its[i] = Undefined THEN NoItem ELSE hp[its[i]]]

\* this._onDidChange.fire({type, item, items}) with the store in state (its, hp).
\* live: the items array carried is the store's own array, not a copy.
Fire(type, item, evItems, live, its, hp) ==
  [type |-> type, item |-> item, items |-> evItems, live |-> live, seen |-> View(its, hp)]

Result(its, hp, ok, item, events) ==
  [items |-> its, heap |-> hp, ok |-> ok, item |-> item, events |-> events]

\* The record kept of a store call: no call yet, and a call with its result r.
\* target and before are kept of the calls made by a drop or a move command:
\* the node dropped on and the store's array before the call.
NoOp == [op |-> "none", id |-> Undefined, from |-> 0, to |-> 0,
         ok |-> FALSE, item |-> Undefined, events |-> <<>>, fields |-> {},
         target |-> Undefined, before |-> <<>>]

Call(op, id, from, to, r) ==
  [op |-> op, id |-> id, from |-> from, to |-> to,
   ok |-> r.ok, item |-> r.item, events |-> r.events, fields |-> {},
   target |-> Undefined, before |-> <<>>]

\* The record kept of update(id, updates): fields are the fields updates names.
CallUpdate(id, updates, r) == [Call("update", id, 0, 0, r) EXCEPT !.fields = DOMAIN updates]

\* A reindex that forgets to renumber.
ReindexStale(its, hp) == hp

\* reindex(): items.forEach((item, index) => item.index = index)
Reindex(its, hp) ==
  [id \in DOMAIN hp |->
     IF \E i \in 1..Len(its) : its[i] = id
       THEN [hp[id] EXCEPT !.index = (CHOOSE i \in 1..Len(its) : its[i] = id) - 1]
       ELSE hp[id]]

\* An off-by-one bound check.
IsValidIndexInclusive(its, index) == index >= 0 /\ index <= Len(its)

\* isValidIndex(index)
IsValidIndex(its, index) == index >= 0 /\ index < Len(its)

\* add(item): item is a freshly created object, put on the heap under id.
StoreAdd(its, hp, id, item) ==
  LET obj  == [item EXCEPT !.index = Len(its)]
      hp1  == [hp EXCEPT ![id] = obj]
      its1 == Append(its, id)
  IN Result(its1, hp1, TRUE, id, <<Fire("add", id, <<>>, FALSE, its1, hp1)>>)

\* A remove that notifies before it renumbers.
StoreRemoveFireEarly(its, hp, id) ==
  LET index == FindIndex(its, hp, id)
  IN IF index = -1
       THEN Result(its, hp, FALSE, Undefined, <<>>)
       ELSE LET sp  == SpliceRemove(its, index)
                rem == First(sp.removed)
            IN Result(sp.rest, Reindex(sp.rest, hp), TRUE, rem,
                      <<Fire("remove", rem, <<>>, FALSE, sp.rest, hp)>>)

\* A remove that leaves the index fields as they are.
StoreRemoveNoReindex(its, hp, id) ==
  LET index == FindIndex(its, hp, id)
  IN IF index = -1
       THEN Result(its, hp, FALSE, Undefined, <<>>)
       ELSE LET sp  == SpliceRemove(its, index)
                rem == First(sp.removed)
            IN Result(sp.rest, hp, TRUE, rem,
                      <<Fire("remove", rem, <<>>, FALSE, sp.rest, hp)>>)

\* remove(id)
StoreRemove(its, hp, id) ==
  LET index == FindIndex(its, hp, id)
  IN IF index = -1
       THEN Result(its, hp, FALSE, Undefined, <<>>)
       ELSE LET sp  == SpliceRemove(its, index)
                rem == First(sp.removed)
                hp1 == Reindex(sp.rest, hp)
            IN Result(sp.rest, hp1, TRUE, rem,
                      <<Fire("remove", rem, <<>>, FALSE, sp.rest, hp1)>>)

\* update(id, updates)
StoreUpdate(its, hp, id, updates) ==
  LET index == FindIndex(its, hp, id)
  IN IF index = -1
       THEN Result(its, hp, FALSE, Undefined, <<>>)
       ELSE LET obj == its[index + 1]
                hp1 == [hp EXCEPT ![obj] = ObjectAssign(hp[obj], updates)]
            IN Result(its, hp1, TRUE, obj,
                      <<Fire("update", obj, <<>>, FALSE, its, hp1)>>)

\* A reorder that exchanges the two positions.
StoreReorderSwap(its, hp, fromIndex, toIndex) ==
  IF ~IsValidIndex(its, fromIndex) \/ ~IsValidIndex(its, toIndex)
    THEN Result(its, hp, FALSE, Undefined, <<>>)
    ELSE LET its2 == [its EXCEPT ![fromIndex + 1] = its[toIndex + 1],
                                 ![toIndex + 1] = its[fromIndex + 1]]
             hp1  == Reindex(its2, hp)
         IN Result(its2, hp1, TRUE, Undefined,
                   <<Fire("reorder", Undefined, its2, TRUE, its2, hp1)>>)

\* reorder(fromIndex, toIndex)
StoreReorder(its, hp, fromIndex, toIndex) ==
  IF ~IsValidIndex(its, fromIndex) \/ ~IsValidIndex(its, toIndex)
    THEN Result(its, hp, FALSE, Undefined, <<>>)
    ELSE LET sp   == SpliceRemove(its, fromIndex)
             its2 == SpliceInsert(sp.rest, toIndex, First(sp.removed))
             hp1  == Reindex(its2, hp)
         IN Result(its2, hp1, TRUE, Undefined,
                   <<Fire("reorder", Undefined, its2, TRUE, its2, hp1)>>)

\* clear()
StoreClear(its, hp) ==
  Result(<<>>, hp, TRUE, Undefined, <<Fire("clear", Undefined, its, FALSE, <<>>, hp)>>)

\* getAll(): a copy of the array (the same objects).
GetAll(its) == its

\* ------------------------------------------------------------ content sources
\* The workspace folder all modelled resources live in, and a resource's uri.
WsRoot == <<"/ws">>
Uri(rel) == WsRoot \o <<"/">> \o rel

\* PathService.getRelativePath(uri): filePath.substring(root.length + 1) inside
\* the workspace folder, the full path outside of it.
GetRelativePath(uri) ==
  IF Len(uri) >= Len(WsRoot) /\ SubSeq(uri, 1, Len(WsRoot)) = WsRoot
    THEN SubSeq(uri, Len(WsRoot) + 2, Len(uri))
    ELSE uri

\* path.basename(p): what follows the last separator.
RECURSIVE Basename(_)
Basename(p) ==
  IF \E i \in 1..Len(p) : p[i] = "/"
    THEN Basename(Tail(p))
    ELSE p

\* A vscode.TextDocument as the providers read it.
Document(languageId, text) == [languageId |-> languageId, text |-> text]

\* A file item whose content is the document's text as it is at creation.
FileProviderCreateCaptured(id, uri, document) ==
  [id |-> id, type |-> "file", title |-> Basename(uri),
   content |-> StrContent(document.text), mode |-> "dynamic", index |-> 0,
   filePath |-> GetRelativePath(uri), language |-> document.languageId,
   lineStart |-> 0, lineEnd |-> 0]

\* FileProvider.create(uri), once stat and openTextDocument have succeeded;
\* document is the opened document.
FileProviderCreate(id, uri, document) ==
  [id |-> id, type |-> "file", title |-> Basename(uri),
   content |-> FnContent("file", uri), mode |-> "dynamic", index |-> 0,
   filePath |-> GetRelativePath(uri), language |-> document.languageId,
   lineStart |-> 0, lineEnd |-> 0]

\* A snippet item marked dynamic though its content is the captured text.
SnippetProviderCreateDynamic(id, uri, languageId, startLine, endLine, text) ==
  [id |-> id, type |-> "snippet", title |-> NoText,
   content |-> StrContent(text), mode |-> "dynamic", index |-> 0,
   filePath |-> GetRelativePath(uri), language |-> languageId,
   lineStart |-> startLine + 1, lineEnd |-> endLine + 1]

\* SnippetProvider.create(document, selection): text is document.getText(selection),
\* startLine/endLine are the selection's 0-based lines.
SnippetProviderCreate(id, uri, languageId, startLine, endLine, text) ==
  [id |-> id, type |-> "snippet", title |-> NoText,
   content |-> StrContent(text), mode |-> "static", index |-> 0,
   filePath |-> GetRelativePath(uri), language |-> languageId,
   lineStart |-> startLine + 1, lineEnd |-> endLine + 1]

\* TerminalProvider.create(), with a terminal active and a captured output.
TerminalProviderCreate(id, terminalName, output) ==
  [id |-> id, type |-> "terminal", title |-> <<"Terminal: ">> \o terminalName,
   content |-> StrContent(output), mode |-> "static", index |-> 0,
   filePath |-> NoText, language |-> NoText, lineStart |-> 0, lineEnd |-> 0]

\* FolderTreeProvider.create(uri), uri being a directory.
FolderTreeProviderCreate(id, uri) ==
  [id |-> id, type |-> "tree", title |-> <<"Tree: ">> \o Basename(uri),
   content |-> FnContent("tree", uri), mode |-> "dynamic", index |-> 0,
   filePath |-> GetRelativePath(uri), language |-> NoText,
   lineStart |-> 0, lineEnd |-> 0]

\* GitDiffProvider.createGitDiff(), the whole repository, staged changes present.
GitDiffProviderCreate(id) ==
  [id |-> id, type |-> "git-diff", title |-> <<"Git Diff (--cached)">>,
   content |-> FnContent("git", NoText), mode |-> "dynamic", index |-> 0,
   filePath |-> NoText, language |-> NoText, lineStart |-> 0, lineEnd |-> 0]

\* UserInstructionProvider.create(), trimmed being the non-empty trimmed input;
\* the title is its first line (single-line inputs are modelled).
UserInstructionProviderCreate(id, trimmed) ==
  [id |-> id, type |-> "user-instruction", title |-> trimmed,
   content |-> StrContent(trimmed), mode |-> "static", index |-> 0,
   filePath |-> NoText, language |-> NoText, lineStart |-> 0, lineEnd |-> 0]

\* ------------------------------------------------------------- model inputs
PathA == <<"a">>
PathB == <<"B">>
Paths == {PathA, PathB}
Ts == <<"ts">>
Text1 == <<"v1">>
Text2 == <<"v2">>
TsDoc == Document(Ts, Text1)

\* Items the callers of the store hand to add().
StoreTemplates(id) ==
  { TerminalProviderCreate(id, <<"bash">>, Text1) }

\* The partial objects handed to update(): an edited content, and nothing.
StoreUpdates == { [content |-> StrContent(Text2)], <<>> }

\* Garbage collection: an object no reference in live leads to is dropped.
Collect(hp, live) == [id \in DOMAIN hp |-> IF id \in live THEN hp[id] ELSE NoItem]

Range(s) == {s[i] : i \in 1..Len(s)}

\* ------------------------------------------------------------ IgnoreService
\* A name is the sequence of its characters.
NodeModules == <<"n", "o", "d", "e", "_", "m", "o", "d", "u", "l", "e", "s">>
Pyc == <<".", "p", "y", "c">>
YPyc == <<"y">> \o Pyc

\* String.prototype.toLowerCase, on the letters names are written with.
LowerCaseOf(ch) ==
  CASE ch = "A" -> "a" [] ch = "B" -> "b" [] ch = "C" -> "c" [] ch = "P" -> "p"
    [] ch = "S" -> "s" [] ch = "T" -> "t" [] ch = "Y" -> "y"
    [] OTHER -> ch
ToLowerCase(str) == [i \in 1..Len(str) |-> LowerCaseOf(str[i])]

\* path.extname(name), name holding no separator: what starts at the last dot,
\* and the empty string when there is no dot, when the last dot is the first
\* character, or when the name is "..".
Extname(name) ==
  LET dots == {i \in 1..Len(name) : name[i] = "."}
      startDot == CHOOSE i \in dots : \A j \in dots : j <= i
  IN IF dots = {} THEN NoText
     ELSE IF startDot = 1 \/ name = <<".", ".">> THEN NoText
     ELSE SubSeq(name, startDot, Len(name))

\* pattern.endsWith('/') and pattern.slice(0, -1)
EndsWithSlash(pattern) == pattern # << >> /\ pattern[Len(pattern)] = "/"
SliceLast(pattern) == SubSeq(pattern, 1, Len(pattern) - 1)

\* String.prototype.replace(/from/g, to): every occurrence of the text from,
\* found from left to right, is replaced by to.
IsPrefix(pre, str) == Len(pre) <= Len(str) /\ SubSeq(str, 1, Len(pre)) = pre
RECURSIVE ReplaceAll(_, _, _)
ReplaceAll(str, from, to) ==
  IF str = << >> THEN << >>
  ELSE IF IsPrefix(from, str)
    THEN to \o ReplaceAll(SubSeq(str, Len(from) + 1, Len(str)), from, to)
  ELSE <<Head(str)>> \o ReplaceAll(Tail(str), from, to)

\* .replace(/[.+^${}()|[\]\\]/g, '\\$&'): a backslash before each of them.
SpecialChars == {".", "+", "^", "$", "{", "}", "(", ")", "|", "[", "]", "\\"}
RECURSIVE EscapeSpecial(_)
EscapeSpecial(str) ==
  IF str = << >> THEN << >>
  ELSE (IF Head(str) \in SpecialChars THEN <<"\\", Head(str)>> ELSE <<Head(str)>>)
       \o EscapeSpecial(Tail(str))

\* The text that stands for ** while * is replaced.
GlobStar == <<"<", "<", "<", "G", "L", "O", "B", "S", "T", "A", "R", ">", ">", ">">>
NoSlashes == <<"[", "^", "/", "]", "*">>
NoSlash == <<"[", "^", "/", "]">>
Anything == <<".", "*">>

\* regexPattern: the pattern turned into the source of a regular expression.
RegexPattern(pattern) ==
  ReplaceAll(
    ReplaceAll(
      ReplaceAll(
        ReplaceAll(EscapeSpecial(pattern), <<"*", "*">>, GlobStar),
        <<"*">>, NoSlashes),
      <<"?">>, NoSlash),
    GlobStar, Anything)

\* What the regular expression source, anchored at both ends and with the flag
\* i, accepts. The sources regexPattern yields are made of \c (the character
\* c), [^/]* , [^/] , .* (a run of characters that are no line terminators)
\* and plain characters.
RECURSIVE Accepts(_, _)
Accepts(source, name) ==
  LET Drop(k) == SubSeq(name, k + 1, Len(name))
      Rest(k) == SubSeq(source, k + 1, Len(source))
  IN IF source = << >> THEN name = << >>
     ELSE IF Head(source) = "\\" /\ Len(source) >= 2
       THEN /\ name # << >>
            /\ LowerCaseOf(name[1]) = LowerCaseOf(source[2])
            /\ Accepts(Rest(2), Tail(name))
     ELSE IF IsPrefix(NoSlashes, source)
       THEN \E k \in 0..Len(name) :
              /\ \A j \in 1..k : name[j] # "/"
              /\ Accepts(Rest(Len(NoSlashes)), Drop(k))
     ELSE IF IsPrefix(NoSlash, source)
       THEN name # << >> /\ name[1] # "/" /\ Accepts(Rest(Len(NoSlash)), Tail(name))
     ELSE IF IsPrefix(Anything, source)
       THEN \E k \in 0..Len(name) :
              /\ \A j \in 1..k : name[j] \notin {"\n", "\r"}
              /\ Accepts(Rest(Len(Anything)), Drop(k))
     ELSE /\ name # << >>
          /\ LowerCaseOf(name[1]) = LowerCaseOf(Head(source))
          /\ Accepts(Tail(source), Tail(name))

\* new RegExp('^' + regexPattern + '$', 'i').test(name)
RegexTest(pattern, name) == Accepts(RegexPattern(pattern), name)

\* A matcher that takes a pattern ending in '/' for files as well.
MatchGlobPatternAnyKind(name, pattern, isDirectory) ==
  RegexTest(IF EndsWithSlash(pattern) THEN SliceLast(pattern) ELSE pattern, name)

\* matchGlobPattern(name, pattern, isDirectory)
MatchGlobPattern(name, pattern, isDirectory) ==
  IF EndsWithSlash(pattern)
    THEN IF ~isDirectory THEN FALSE ELSE RegexTest(SliceLast(pattern), name)
    ELSE RegexTest(pattern, name)

\* matchesPatterns(name, isDirectory) over this.config.patterns
MatchesPatterns(name, isDirectory) ==
  \E pattern \in ignore.config.patterns : MatchGlobPattern(name, pattern, isDirectory)

\* shouldIgnoreDirectory(dirName)
ShouldIgnoreDirectory(dirName) ==
  IF dirName \in ignore.config.directories THEN TRUE
  ELSE MatchesPatterns(dirName, TRUE)

\* shouldIgnoreFile(fileName)
ShouldIgnoreFile(fileName) ==
  LET ext == ToLowerCase(Extname(fileName))
  IN IF fileName \in ignore.config.files THEN TRUE
     ELSE IF ext # NoText /\ ext \in ignore.config.extensions THEN TRUE
     ELSE MatchesPatterns(fileName, FALSE)

\* The configuration in force when nothing is set: a part of DEFAULT_IGNORE,
\* whose pattern list is empty.
IgnoreConfig(directories, files, extensions, patterns) ==
  [directories |-> directories, files |-> files, extensions |-> extensions,
   patterns |-> patterns]
DefaultIgnore ==
  IgnoreConfig({NodeModules, <<"o", "u", "t">>}, {<<".", "D", "S">>}, {Pyc, <<".", "s", "o">>}, {})

\* The settings loadConfig may find: the lists of names, of extensions and of
\* glob patterns.
ListedDirectories == { {}, {NodeModules} }
ListedFiles == { {}, {<<"a">>} }
ListedExtensions == { {}, {Pyc}, {<<".", "P", "Y", "C">>} }
GlobPatterns ==
  { <<"*", ".", "p", "y", "c">>, <<"s", "/">>, <<"*", "/">>, <<"?">>, <<"y", "*", "*", "c">>, <<"b">>,
    GlobStar }
ListedPatterns == { ps \in SUBSET GlobPatterns : Cardinality(ps) <= 2 }
IgnoreConfigs ==
  { IgnoreConfig(d, f, e, ps) :
      d \in ListedDirectories, f \in ListedFiles, e \in ListedExtensions, ps \in ListedPatterns }

\* The names the service is asked about.
AskedNames ==
  { <<"a">>, <<"B">>, <<"s">>, NodeModules, YPyc, Pyc, <<"Y", ".", "P", "Y", "C">>,
    <<"y", "x", "p", "y", "c">>, <<"a", ".", "b", ".", "p", "y", "c">>, <<"y", ".">> }

NoQuestion == [op |-> "none", name |-> NoText, answer |-> FALSE]

\* reload(): the configuration is read again from the settings.
Reload ==
  /\ \E cfg \in IgnoreConfigs : ignore' = [config |-> cfg, asked |-> NoQuestion]
  /\ UNCHANGED <<storeVars, cmds, world, gen, config, formatted, held>>

\* A caller asks shouldIgnoreDirectory(name) / shouldIgnoreFile(name).
AskDirectory ==
  /\ \E name \in AskedNames :
       ignore' = [ignore EXCEPT !.asked = [op |-> "shouldIgnoreDirectory", name |-> name,
                                           answer |-> ShouldIgnoreDirectory(name)]]
  /\ UNCHANGED <<storeVars, cmds, world, gen, config, formatted, held>>

AskFile ==
  /\ \E name \in AskedNames :
       ignore' = [ignore EXCEPT !.asked = [op |-> "shouldIgnoreFile", name |-> name,
                                           answer |-> ShouldIgnoreFile(name)]]
  /\ UNCHANGED <<storeVars, cmds, world, gen, config, formatted, held>>

IgnoreInit == ignore = [config |-> DefaultIgnore, asked |-> NoQuestion]

\* ---------------------------------------------------------------- file system
\* The directories of the workspace and what readdir returns for each: name and
\* whether the entry is a directory.
DirD == <<"d">>
DirDS == DirD \o <<"/", "s">>
DirDN == DirD \o <<"/">> \o NodeModules
DirDNS == DirDN \o <<"/", "s">>
DirEntries(rel) ==
  IF rel = DirD
    THEN << [name |-> <<"a">>, dir |-> FALSE],
            [name |-> NodeModules, dir |-> TRUE],
            [name |-> <<"s">>, dir |-> TRUE] >>
  ELSE IF rel = DirDS
    THEN << [name |-> <<"B">>, dir |-> FALSE],
            [name |-> YPyc, dir |-> FALSE] >>
  ELSE IF rel = DirDN
    THEN << [name |-> <<"x">>, dir |-> FALSE],
            [name |-> <<"s">>, dir |-> TRUE] >>
  ELSE IF rel = DirDNS
    THEN << [name |-> <<"B">>, dir |-> FALSE] >>
  ELSE << >>

PathDA == DirD \o <<"/", "a">>
PathDSB == DirD \o <<"/", "s", "/", "B">>
IsDirectory(rel) == rel \in {DirD, DirDS, DirDN, DirDNS}
Files == {PathA, PathDA, PathDSB, DirDS \o <<"/">> \o YPyc,
          DirDN \o <<"/", "x">>, DirDNS \o <<"/", "B">>}

\* The files that stat or openTextDocument may fail on.
MayFail == {PathDA, PathDSB}

\* path.join(dir, name)
PathJoin(dir, name) == dir \o <<"/">> \o name

\* ------------------------------------------------------------- FileProvider
\* A duplicate check that compares object identity.
FileIsDuplicateById(item, existing) ==
  \E i \in 1..Len(existing) :
    existing[i].type = "file" /\ existing[i].id = item.id

\* isDuplicate(item, existingItems): existing is the list of item objects.
FileIsDuplicate(item, existing) ==
  \E i \in 1..Len(existing) :
    existing[i].type = "file" /\ existing[i].filePath = item.filePath

\* A collection that enters every directory, ignored or not.
RECURSIVE CreateFromEntriesEverywhere(_, _, _, _)
CreateFromEntriesEverywhere(rel, entries, readable, id) ==
  IF entries = << >> THEN << >>
  ELSE LET entry == Head(entries)
           entryPath == PathJoin(rel, entry.name)
           here ==
             IF entry.dir
               THEN CreateFromEntriesEverywhere(entryPath, DirEntries(entryPath), readable, id)
               ELSE IF ShouldIgnoreFile(entry.name) THEN << >>
                    ELSE IF entryPath \in readable
                      THEN << FileProviderCreate(id, Uri(entryPath), TsDoc) >>
                      ELSE << >>
       IN here \o CreateFromEntriesEverywhere(rel, Tail(entries), readable, id + Len(here))

\* createFromDirectory(uri): the items of the readable, not ignored files below
\* rel, in readdir order, directories entered recursively; ids are handed out
\* from id on. readable is the set of files stat and openTextDocument succeed on.
RECURSIVE CreateFromEntries(_, _, _, _)
CreateFromEntries(rel, entries, readable, id) ==
  IF entries = << >> THEN << >>
  ELSE LET entry == Head(entries)
           entryPath == PathJoin(rel, entry.name)
           here ==
             IF entry.dir
               THEN IF ShouldIgnoreDirectory(entry.name) THEN << >>
                    ELSE CreateFromEntries(entryPath, DirEntries(entryPath), readable, id)
               ELSE IF ShouldIgnoreFile(entry.name) THEN << >>
                    ELSE IF entryPath \in readable
                      THEN << FileProviderCreate(id, Uri(entryPath), TsDoc) >>
                      ELSE << >>
       IN here \o CreateFromEntries(rel, Tail(entries), readable, id + Len(here))

CreateFromDirectory(rel, readable, id) ==
  CreateFromEntries(rel, DirEntries(rel), readable, id)

\* The files create(entryUri) is called on by createFromDirectory(uri) and
\* fails on: its catch calls this.showError and returns undefined.
RECURSIVE ErrorsFromEntries(_, _, _)
ErrorsFromEntries(rel, entries, readable) ==
  IF entries = << >> THEN << >>
  ELSE LET entry == Head(entries)
           entryPath == PathJoin(rel, entry.name)
           here ==
             IF entry.dir
               THEN IF ShouldIgnoreDirectory(entry.name) THEN << >>
                    ELSE ErrorsFromEntries(entryPath, DirEntries(entryPath), readable)
               ELSE IF ShouldIgnoreFile(entry.name) THEN << >>
                    ELSE IF entryPath \in readable THEN << >> ELSE << entryPath >>
       IN here \o ErrorsFromEntries(rel, Tail(entries), readable)

\* ---------------------------------------------------------- CommandRegistry
\* Number of add commands that may run concurrently.
MaxCmds == 2
CmdIds == 1..MaxCmds

\* rejected counts the created items found to be duplicates, missing the calls
\* of create that returned undefined; readable is the set of files that stat
\* and openTextDocument succeeded on while the directory was collected;
\* errors lists the files FileProvider.create has shown an error message for
\* while the current uri is worked on; tempFile and output are
\* verifyHasChanges's locals.
IdleCmd == [kind |-> "none", pc |-> "idle", queue |-> << >>, pending |-> << >>,
            rejected |-> 0, missing |-> 0, readable |-> {}, errors |-> << >>,
            tempFile |-> << >>, output |-> << >>]

\* The uri lists addFile is started with (resolveFileUris), and the documents
\* open when addOpenedFiles is started.
AddFileInputs == { <<PathDA>>, <<DirD>>, <<PathA, PathDA>> }
OpenDocuments == { <<PathDA, PathA>> }

\* The synchronous tail of addFileOrDirectory and of addOpenedFiles's loop body:
\*   for (item of pending) if (!isDuplicate(item, store.getAll())) store.add(item)
\* folded over the created items; the store calls are applied in order.
RECURSIVE CommitItems(_, _, _, _)
CommitItems(pending, its, hp, acc) ==
  IF pending = << >>
    THEN [items |-> its, heap |-> hp, last |-> acc.last, rejected |-> acc.rejected]
    ELSE LET item == Head(pending)
         IN IF FileIsDuplicate(item, View(GetAll(its), hp))
              THEN CommitItems(Tail(pending), its, hp,
                               [acc EXCEPT !.rejected = @ + 1])
              ELSE LET r == StoreAdd(its, hp, item.id, item)
                   IN CommitItems(Tail(pending), r.items, r.heap,
                                  [acc EXCEPT !.last = Call("add", item.id, 0, 0, r)])

\* addFile(contextSelection, allSelections) / addOpenedFiles() is invoked.
StartAddFile(c) ==
  /\ cmds[c].pc = "idle"
  /\ \E uris \in AddFileInputs :
       cmds' = [cmds EXCEPT ![c] = [IdleCmd EXCEPT !.kind = "addFile", !.pc = "stat",
                                                  !.queue = uris]]
  /\ UNCHANGED <<storeVars, genVars>>

StartAddOpenedFiles(c) ==
  /\ cmds[c].pc = "idle"
  /\ \E docs \in OpenDocuments :
       cmds' = [cmds EXCEPT ![c] = [IdleCmd EXCEPT !.kind = "addOpened", !.pc = "create",
                                                  !.queue = docs]]
  /\ UNCHANGED <<storeVars, genVars>>

\* What a command does after the work on its current uri: the next uri, or the end.
NextUri(cmd) ==
  LET rest == Tail(cmd.queue)
  IN [cmd EXCEPT !.queue = rest, !.pending = << >>, !.readable = {}, !.errors = << >>,
                 !.pc = IF rest = << >> THEN "done"
                        ELSE IF cmd.kind = "addFile" THEN "stat" ELSE "create"]

\* addFileOrDirectory: await fs.promises.stat(uri.fsPath) settles. A rejection is
\* caught and ends the work on this uri.
StatSettles(c) ==
  /\ cmds[c].pc = "stat"
  /\ \E ok \in BOOLEAN :
       cmds' = [cmds EXCEPT ![c] =
                  IF ~ok THEN NextUri(cmds[c])
                  ELSE IF IsDirectory(Head(cmds[c].queue)) THEN [cmds[c] EXCEPT !.pc = "list"]
                  ELSE [cmds[c] EXCEPT !.pc = "create"]]
  /\ UNCHANGED <<storeVars, genVars>>

\* await this.fileProvider.create(uri) settles: an item, or undefined.
CreateSettles(c) ==
  /\ cmds[c].pc = "create"
  /\ \E ok \in BOOLEAN :
       IF ok
         THEN /\ nextId <= MaxIds
              /\ cmds' = [cmds EXCEPT ![c].pc = "commit",
                                      ![c].pending =
                                        << FileProviderCreate(nextId, Uri(Head(cmds[c].queue)), TsDoc) >>]
              /\ nextId' = nextId + 1
         ELSE /\ cmds' = [cmds EXCEPT ![c].pc = "commit", ![c].pending = << >>,
                                      ![c].missing = @ + 1,
                                      ![c].errors = << Head(cmds[c].queue) >>]
              /\ UNCHANGED nextId
  /\ UNCHANGED <<items, heap, lastOp, genVars>>

\* await this.fileProvider.createFromDirectory(uri) settles.
ListSettles(c) ==
  /\ cmds[c].pc = "list"
  /\ \E unreadable \in SUBSET MayFail :
       LET readable == Files \ unreadable
           created == CreateFromDirectory(Head(cmds[c].queue), readable, nextId)
       IN /\ nextId + Len(created) - 1 <= MaxIds
          /\ cmds' = [cmds EXCEPT ![c].pc = "commit", ![c].pending = created,
                                  ![c].readable = readable,
                                  ![c].errors =
                                    ErrorsFromEntries(Head(cmds[c].queue),
                                                      DirEntries(Head(cmds[c].queue)), readable)]
          /\ nextId' = nextId + Len(created)
  /\ UNCHANGED <<items, heap, lastOp, genVars>>

\* The continuation after the await: duplicate check and add, without a pause.
Commit(c) ==
  /\ cmds[c].pc = "commit"
  /\ LET r == CommitItems(cmds[c].pending, items, heap, [last |-> lastOp, rejected |-> 0])
     IN /\ items' = r.items
        /\ heap' = r.heap
        /\ lastOp' = r.last
        /\ cmds' = [cmds EXCEPT ![c] = [NextUri(cmds[c]) EXCEPT !.rejected = @ + r.rejected]]
  /\ UNCHANGED <<nextId, genVars>>

\* ------------------------------------------- the add commands of one item
\* addSelection, addTerminalOutput, addFolderTree, addGitDiffCached,
\* addGitDiffFile and addUserInstruction: one await of the provider's create,
\* then, without a pause, the check of the result and store.add.
AddKinds == {"addSelection", "addTerminalOutput", "addFolderTree",
             "addGitDiffCached", "addGitDiffFile", "addUserInstruction"}

\* The commands that return before create when nothing is there to create from
\* (no editor or an empty selection; no folder or file chosen).
NeedsTarget == {"addSelection", "addFolderTree", "addGitDiffFile"}

\* GitDiffProvider.createForFile(uri), staged changes of the file present.
GitDiffProviderCreateForFile(id, uri) ==
  [id |-> id, type |-> "git-diff", title |-> <<"Git Diff: ">> \o Basename(uri),
   content |-> FnContent("git", uri), mode |-> "dynamic", index |-> 0,
   filePath |-> GetRelativePath(uri), language |-> NoText,
   lineStart |-> 0, lineEnd |-> 0]

\* The selections of the active editor (start line, end line; 0-based) and the
\* texts submitted in the instruction dialog, trimmed.
Selections == { <<0, 0>>, <<0, 1>> }
Instructions == {Text1, Text2}

\* The items the command's provider may resolve with.
Created(kind, id) ==
  CASE kind = "addSelection" ->
         { SnippetProviderCreate(id, Uri(PathA), Ts, s[1], s[2], Text1) : s \in Selections }
    [] kind = "addTerminalOutput" -> { TerminalProviderCreate(id, <<"bash">>, Text1) }
    [] kind = "addFolderTree" -> { FolderTreeProviderCreate(id, Uri(DirD)) }
    [] kind = "addGitDiffCached" -> { GitDiffProviderCreate(id) }
    [] kind = "addGitDiffFile" -> { GitDiffProviderCreateForFile(id, Uri(PathA)) }
    [] kind = "addUserInstruction" ->
         { UserInstructionProviderCreate(id, t) : t \in Instructions }
    [] OTHER -> {}

\* A snippet check that compares the path alone.
SnippetIsDuplicateByPath(item, existing) ==
  \E i \in 1..Len(existing) :
    existing[i].type = "snippet" /\ existing[i].filePath = item.filePath

\* SnippetProvider.isDuplicate(item, existingItems)
SnippetIsDuplicate(item, existing) ==
  \E i \in 1..Len(existing) :
    /\ existing[i].type = "snippet"
    /\ existing[i].filePath = item.filePath
    /\ existing[i].lineStart = item.lineStart
    /\ existing[i].lineEnd = item.lineEnd

\* UserInstructionProvider.isDuplicate(item, existingItems)
UserInstructionIsDuplicate(item, existing) ==
  \E i \in 1..Len(existing) :
    existing[i].type = "user-instruction" /\ existing[i].content = item.content

\* The duplicate check the command makes before store.add, if it makes one.
IsDuplicate(kind, item, existing) ==
  CASE kind = "addSelection" -> SnippetIsDuplicate(item, existing)
    [] kind = "addUserInstruction" -> UserInstructionIsDuplicate(item, existing)
    [] OTHER -> FALSE

\* A condition that lets the result of create through whatever it is.
PassesUnchecked(kind, pending, existing) == TRUE

\* The condition of store.add: if (item), or if (item && !isDuplicate(item, getAll())).
\* pending is << >> when create returned undefined.
Passes(kind, pending, existing) ==
  pending # << >> /\ ~IsDuplicate(kind, pending[1], existing)

\* The command is invoked.
StartAdd(c, kinds) ==
  /\ cmds[c].pc = "idle"
  /\ \E kind \in kinds, target \in BOOLEAN :
       /\ (~target) => kind \in NeedsTarget
       /\ cmds' = [cmds EXCEPT ![c] = [IdleCmd EXCEPT !.kind = kind,
                                          !.pc = IF target THEN "provider" ELSE "done"]]
  /\ UNCHANGED <<storeVars, genVars>>

\* await provider.create(...) settles: an item, or undefined.
ProviderSettles(c) ==
  /\ cmds[c].pc = "provider"
  /\ \/ /\ nextId <= MaxIds
        /\ \E item \in Created(cmds[c].kind, nextId) :
             cmds' = [cmds EXCEPT ![c].pc = "add", ![c].pending = <<item>>]
        /\ nextId' = nextId + 1
     \/ /\ cmds' = [cmds EXCEPT ![c].pc = "add", ![c].pending = << >>,
                                ![c].missing = @ + 1]
        /\ UNCHANGED nextId
  /\ UNCHANGED <<items, heap, lastOp, genVars>>

\* The continuation after the await: the condition, and store.add.
CommitAdd(c) ==
  /\ cmds[c].pc = "add"
  /\ LET pending == cmds[c].pending
         item == IF pending = << >> THEN NoItem ELSE pending[1]
         r == StoreAdd(items, heap, item.id, item)
     IN IF Passes(cmds[c].kind, pending, View(GetAll(items), heap))
          THEN /\ items' = r.items
               /\ heap' = r.heap
               /\ lastOp' = Call("add", item.id, 0, 0, r)
               /\ cmds' = [cmds EXCEPT ![c].pc = "done", ![c].pending = << >>]
          ELSE /\ UNCHANGED <<items, heap, lastOp>>
               /\ cmds' = [cmds EXCEPT ![c].pc = "done", ![c].pending = << >>,
                                       ![c].rejected = @ + Len(pending)]
  /\ UNCHANGED <<nextId, genVars>>

CmdInit == cmds = [c \in CmdIds |-> IdleCmd]

\* ------------------------------------------------------------------ resources
\* What dynamic content is read from: a file's document, a folder's listing,
\* the repository's staged diff. A read yields a text or fails with a message.
FileRes(uri) == <<"file:">> \o uri
TreeRes(uri) == <<"tree:">> \o uri
GitRes == <<"git:">>

Ok(v) == [ok |-> TRUE, v |-> v]
Fail(message) == [ok |-> FALSE, v |-> message]
ENOENT == <<"ENOENT">>

\* verifyHasChanges's temporary file, path.join(os.tmpdir(),
\* `git-diff-check-${Date.now()}.txt`), now being the millisecond read.
TempFile(now) == <<"tmp:git-diff-check-", now, ".txt">>
\* The milliseconds commands are invoked in.
Clock == {"t1", "t2"}
TempFiles == {TempFile(now) : now \in Clock}

Resources ==
  {FileRes(Uri(PathA)), FileRes(Uri(PathB)), TreeRes(Uri(DirD)), GitRes} \cup TempFiles
\* The resources that change while the program runs, and what a read may yield.
Changing == {FileRes(Uri(PathA)), TreeRes(Uri(DirD)), GitRes}
Reads(r) ==
  IF r = FileRes(Uri(PathA)) THEN {Ok(Text1), Ok(Text2), Fail(ENOENT)}
  ELSE {Ok(Text1), Ok(Text2)}

\* The resource an item's content is, or was, read from.
ResourceOf(item) ==
  CASE item.type \in {"file", "snippet"} -> FileRes(Uri(item.filePath))
    [] item.type = "tree" -> TreeRes(Uri(item.filePath))
    [] item.type = "git-diff" -> GitRes
    [] OTHER -> NoText

\* The closure a dynamic item carries, called: the promise's outcome.
\*   file: openTextDocument(uri) then getText()         (rejects when unreadable)
\*   tree: folderName + "/\n" + generateFolderTree(uri)  (catches its own errors)
\*   git : the staged diff                               (catches its own errors)
CallGenerator(content, w) ==
  CASE content.gen = "file" -> w[FileRes(content.uri)]
    [] content.gen = "tree" ->
         Ok(Basename(content.uri) \o <<"/\n">> \o w[TreeRes(content.uri)].v)
    [] content.gen = "git" ->
         IF w[GitRes].ok THEN w[GitRes]
         ELSE Ok(<<"[Error: Git diff \\u751f\\u6210\\u5931\\u8d25 - ">> \o w[GitRes].v \o <<"]">>)
    [] OTHER -> Fail(<<"content is not a function">>)

\* --------------------------------------------------------- GitDiffProvider
\* The staged diff is a sequence of hunks, one for each file with staged changes.
HunkA == "diff --git a/a b/a"
HunkB == "diff --git a/B b/B"
HunkOf(uri) == IF uri = Uri(PathA) THEN HunkA ELSE HunkB

\* What the index may hold while the commands run (world[GitRes]): nothing
\* staged, changes of either file or of both, and no repository at all.
StagedStates ==
  { Ok(<< >>), Ok(<<HunkA>>), Ok(<<HunkB>>), Ok(<<HunkA, HunkB>>),
    Fail(<<"not a git repository">>) }

\* git -C root diff --cached [-- path]: the output, or the failure of the command.
\* uri is << >> for the whole repository.
DiffCached(staged, uri) ==
  IF ~staged.ok THEN staged
  ELSE IF uri = << >> THEN staged
  ELSE Ok(SelectSeq(staged.v, LAMBDA h : h = HunkOf(uri)))

\* The target of the command: no uri for add-git-diff-cached.
GitTarget(kind) == IF kind = "addGitDiffFile" THEN Uri(PathA) ELSE << >>

\* addGitDiffCached() and addGitDiffFile(uri) up to verifyHasChanges's
\* await this.execCommand(command): the temporary file is named after the clock.
StartGitDiff(c) ==
  /\ cmds[c].pc = "idle"
  /\ \E kind \in {"addGitDiffCached", "addGitDiffFile"}, now \in Clock :
       cmds' = [cmds EXCEPT ![c] = [IdleCmd EXCEPT !.kind = kind, !.pc = "exec",
                                                   !.tempFile = TempFile(now)]]
  /\ UNCHANGED <<storeVars, world, gen, config, formatted, held, ignore>>

\* verifyHasChanges returned false: createGitDiff returns undefined.
NoChanges(c) == [cmds EXCEPT ![c].pc = "add", ![c].pending = << >>, ![c].missing = @ + 1]

\* await this.execCommand(command) settles: the shell has redirected the
\* command's output to the temporary file; a failing command rejects.
GitExecSettles(c) ==
  /\ cmds[c].pc = "exec"
  /\ LET out == DiffCached(world[GitRes], GitTarget(cmds[c].kind))
     IN /\ world' = [world EXCEPT ![cmds[c].tempFile] =
                       Ok(IF out.ok THEN out.v ELSE << >>)]
        /\ cmds' = IF out.ok THEN [cmds EXCEPT ![c].pc = "read"] ELSE NoChanges(c)
  /\ UNCHANGED <<storeVars, gen, config, formatted, held, ignore>>

\* await fs.promises.readFile(tempFile, 'utf8') settles.
GitReadSettles(c) ==
  /\ cmds[c].pc = "read"
  /\ LET file == world[cmds[c].tempFile]
     IN cmds' = IF file.ok THEN [cmds EXCEPT ![c].pc = "unlink", ![c].output = file.v]
                ELSE NoChanges(c)
  /\ UNCHANGED <<storeVars, world, gen, config, formatted, held, ignore>>

\* await fs.promises.unlink(tempFile) settles, and the rest of createGitDiff:
\* undefined when the output is blank, the item otherwise.
GitUnlinkSettles(c) ==
  /\ cmds[c].pc = "unlink"
  /\ IF ~world[cmds[c].tempFile].ok
       THEN /\ cmds' = NoChanges(c)
            /\ UNCHANGED <<world, nextId>>
       ELSE /\ world' = [world EXCEPT ![cmds[c].tempFile] = Fail(ENOENT)]
            /\ IF cmds[c].output = << >>
                 THEN /\ cmds' = NoChanges(c)
                      /\ UNCHANGED nextId
                 ELSE /\ nextId <= MaxIds
                      /\ cmds' = [cmds EXCEPT ![c].pc = "add", ![c].pending =
                                    << IF cmds[c].kind = "addGitDiffFile"
                                         THEN GitDiffProviderCreateForFile(nextId, Uri(PathA))
                                         ELSE GitDiffProviderCreate(nextId) >>]
                      /\ nextId' = nextId + 1
  /\ UNCHANGED <<items, heap, lastOp, gen, config, formatted, held, ignore>>

\* ------------------------------------------------------------ PromptGenerator
\* The text resolveContent returns when the generator rejects with message.
ErrorMarker(message) == <<"[Error: \\u65e0\\u6cd5\\u751f\\u6210\\u52a8\\u6001\\u5185\\u5bb9 - ">> \o message \o <<"]">>

\* The outcome of resolveContent: the text, or the rejection it lets through.
Resolved(v) == [threw |-> FALSE, v |-> v]
Threw(message) == [threw |-> TRUE, v |-> message]

\* resolveContent without its try/catch.
ResolveContentNoCatch(content, w) ==
  IF content.k = "str" THEN Resolved(content.v)
  ELSE LET r == CallGenerator(content, w)
       IN IF r.ok THEN Resolved(r.v) ELSE Threw(r.v)

\* resolveContent(content): a string is returned as it is; a generator is
\* awaited, and its rejection is turned into the error marker.
ResolveContent(content, w) ==
  IF content.k = "str" THEN Resolved(content.v)
  ELSE LET r == CallGenerator(content, w)
       IN IF r.ok THEN Resolved(r.v)
          ELSE Resolved(ErrorMarker(r.v))

\* The text generate returns for an empty array.
NothingSelected == <<"\\u6ca1\\u6709\\u9009\\u62e9\\u4efb\\u4f55\\u6587\\u4ef6\\u6216\\u4ee3\\u7801\\u7247\\u6bb5">>

\* The markdown fence (three grave accents) of the templates, as one token.
Fence == "[fence]"

\* groupItemsByType: the five groups, in the order generate renders them.
Groups == <<"user-instruction", "terminal", "tree", "git-diff", "code">>
GroupOf(type) == IF type \in {"file", "snippet"} THEN "code" ELSE type
GroupItemsByType(snap, hp) ==
  [g \in 1..Len(Groups) |-> SelectSeq(snap, LAMBDA id : GroupOf(hp[id].type) = Groups[g])]

\* let result = '### ... ###\n\n' of the four format functions, by group.
Heading(g) ==
  CASE g = 1 -> <<"### User Instructions ###", "\n\n">>
    [] g = 2 -> <<"### Terminal Output ###", "\n\n">>
    [] g = 3 -> <<"### Folder Structure ###", "\n\n">>
    [] g = 4 -> <<"### Git Diff (--cached) ###", "\n\n">>
    [] OTHER -> NoText

\* result += ... of the four format functions: one item's entry.
FormatEntry(g, item, content) ==
  CASE g = 1 -> content \o <<"\n\n">>
    [] g = 2 -> item.title \o <<"\n", Fence, "\n">> \o content \o <<"\n", Fence, "\n\n">>
    [] g = 3 -> item.title \o <<"\n", Fence, "\n">> \o content \o <<"\n", Fence, "\n\n">>
    [] g = 4 -> item.title \o <<"\n", Fence, "diff", "\n">> \o content \o <<"\n", Fence, "\n\n">>
    [] OTHER -> NoText

\* `${n}` for a number.
Str(n) == <<ToString(n)>>

\* formatCodeItem(item, content): the outline path, the block and the index.
FormatCodeItem(item, content) ==
  IF item.type = "file"
    THEN LET wrapped == <<"<Content src=\"">> \o item.filePath \o <<"\" lang=\"">> \o
                        item.language \o <<"\">", "\n">> \o content \o <<"\n", "</Content>">>
         IN [path |-> item.filePath,
             prompt |-> <<"\\u6587\\u4ef6: ">> \o item.filePath \o <<"\n">> \o wrapped,
             index |-> item.index]
  ELSE IF item.type = "snippet"
    THEN LET location == item.filePath \o <<" (lines ">> \o Str(item.lineStart) \o
                         <<"-">> \o Str(item.lineEnd) \o <<")">>
             wrapped == <<"<Content src=\"">> \o location \o <<"\" lang=\"">> \o
                        item.language \o <<"\">", "\n">> \o content \o <<"\n", "</Content>">>
         IN [path |-> location,
             prompt |-> <<"\\u4ee3\\u7801\\u7247\\u6bb5: ">> \o location \o <<"\n">> \o wrapped,
             index |-> item.index]
  ELSE [path |-> NoText, prompt |-> NoText, index |-> 0]

\* A decimal digit's value.
Digit(tok) ==
  CASE tok = "1" -> 1 [] tok = "2" -> 2 [] tok = "3" -> 3 [] tok = "4" -> 4
    [] tok = "5" -> 5 [] tok = "6" -> 6 [] tok = "7" -> 7 [] tok = "8" -> 8
    [] tok = "9" -> 9 [] OTHER -> 0

\* String.prototype.localeCompare under the root collation: the strings are
\* compared by the primary weights of their characters (white space, then
\* punctuation, then digits, then letters, a letter's two cases alike), and
\* strings equal so far by case, lower case first.
Primary(tok) ==
  CASE tok = " (lines " -> 1
    [] tok = "-" -> 2
    [] tok = "." -> 3
    [] tok = ")" -> 4
    [] tok = "/" -> 5
    [] tok \in {"0", "1", "2", "3", "4", "5", "6", "7", "8", "9"} -> 10 + Digit(tok)
    [] tok \in {"a", "A"} -> 21
    [] tok \in {"b", "B"} -> 22
    [] tok \in {"d", "D"} -> 24
    [] tok \in {"s", "S"} -> 39
    [] OTHER -> 0
Tertiary(tok) == IF tok \in {"A", "B", "D", "S"} THEN 1 ELSE 0

Sign(n) == IF n < 0 THEN -1 ELSE IF n > 0 THEN 1 ELSE 0

\* Two weight sequences compared position by position, a prefix first.
LexCompare(wa, wb) ==
  LET n == Min(Len(wa), Len(wb))
      diff == {i \in 1..n : wa[i] # wb[i]}
  IN IF diff = {} THEN Sign(Len(wa) - Len(wb))
     ELSE LET i == CHOOSE j \in diff : \A l \in diff : j <= l
          IN Sign(wa[i] - wb[i])

LocaleCompare(a, b) ==
  LET p == LexCompare([i \in 1..Len(a) |-> Primary(a[i])],
                      [i \in 1..Len(b) |-> Primary(b[i])])
  IN IF p # 0 THEN p
     ELSE LexCompare([i \in 1..Len(a) |-> Tertiary(a[i])],
                     [i \in 1..Len(b) |-> Tertiary(b[i])])

SortOrders == {"openingOrder", "filePath"}

\* The comparator sortCodePrompts hands to Array.prototype.sort.
Comparator(a, b, sortOrder) ==
  IF sortOrder = "filePath" THEN LocaleCompare(a.path, b.path)
  ELSE a.index - b.index

\* Array.prototype.sort is stable: an element goes behind the elements that do
\* not compare greater than it.
RECURSIVE InsertSorted(_, _, _)
InsertSorted(sorted, x, sortOrder) ==
  IF sorted = << >> \/ Comparator(sorted[Len(sorted)], x, sortOrder) <= 0
    THEN Append(sorted, x)
    ELSE Append(InsertSorted(SubSeq(sorted, 1, Len(sorted) - 1), x, sortOrder),
                sorted[Len(sorted)])

RECURSIVE SortFrom(_, _, _)
SortFrom(sorted, rest, sortOrder) ==
  IF rest = << >> THEN sorted
  ELSE SortFrom(InsertSorted(sorted, Head(rest), sortOrder), Tail(rest), sortOrder)

\* A sort that orders by index whatever the sort order asked for.
SortCodePromptsByIndex(prompts, sortOrder) == SortFrom(<< >>, prompts, "openingOrder")

\* sortCodePrompts(prompts, sortOrder).
SortCodePrompts(prompts, sortOrder) == SortFrom(<< >>, prompts, sortOrder)

\* texts.join(sep).
RECURSIVE Join(_, _)
Join(texts, sep) ==
  IF texts = << >> THEN NoText
  ELSE IF Len(texts) = 1 THEN texts[1]
  ELSE texts[1] \o sep \o Join(Tail(texts), sep)

\* The tail of formatCodeItems: the sorted entries as outline and content.
FormatCodeSection(codePrompts) ==
  LET outlines == Join([i \in 1..Len(codePrompts) |-> <<"- ">> \o codePrompts[i].path], <<"\n">>)
      contents == Join([i \in 1..Len(codePrompts) |-> codePrompts[i].prompt], <<"\n\n">>)
  IN <<"### Sources ###", "\n\n", "Outlines:", "\n\n">> \o outlines \o
     <<"\n\n", "Content:", "\n\n">> \o contents \o <<"\n\n">>

\* String.prototype.trim: white space at either end is dropped.
WhiteSpace == {"\n", "\n\n", " "}
RECURSIVE TrimStart(_)
TrimStart(text) ==
  IF text # << >> /\ Head(text) \in WhiteSpace THEN TrimStart(Tail(text)) ELSE text
RECURSIVE TrimEnd(_)
TrimEnd(text) ==
  IF text # << >> /\ text[Len(text)] \in WhiteSpace
    THEN TrimEnd(SubSeq(text, 1, Len(text) - 1)) ELSE text
Trim(text) == TrimEnd(TrimStart(text))

\* ------------------------------------------------------- a generate call
\* generate(items, sortOrder) runs between awaits: one step per item, which
\* covers the resolution of the item's content and the code up to the next await.
IdleGen ==
  [pc |-> "idle", snap |-> << >>, sortOrder |-> "openingOrder", groups |-> << >>,
   g |-> 0, k |-> 0, result |-> NoText, codePrompts |-> << >>, sections |-> NoText,
   out |-> NoText, threw |-> FALSE, resolved |-> << >>]

\* A generate that renders the first group that has items and no other.
NextGroupFirstOnly(groups, g) ==
  LET later == {h \in 1..Len(groups) : groups[h] # << >>}
  IN IF g # 0 \/ later = {} THEN 0 ELSE CHOOSE h \in later : \A l \in later : h <= l

\* The next group after g that has items, 0 when there is none.
NextGroup(groups, g) ==
  LET later == {h \in (g + 1)..Len(groups) : groups[h] # << >>}
  IN IF later = {} THEN 0 ELSE CHOOSE h \in later : \A l \in later : h <= l

CodeGroup == Len(Groups)

\* The code that runs when resolveContent(item.content) has returned content:
\* the item's entry is appended; behind a group's last item the section is
\* finished and the next group begun, behind the last group generate returns.
AfterResolve(g0, item, content, rejected) ==
  LET entered ==
        [g0 EXCEPT
           !.result = IF g0.g < CodeGroup THEN @ \o FormatEntry(g0.g, item, content) ELSE @,
           !.codePrompts = IF g0.g = CodeGroup THEN Append(@, FormatCodeItem(item, content)) ELSE @,
           !.resolved = Append(@, [id |-> item.id, v |-> content, rejected |-> rejected])]
  IN IF g0.k < Len(g0.groups[g0.g]) THEN [entered EXCEPT !.k = @ + 1]
     ELSE LET sorted == SortCodePrompts(entered.codePrompts, g0.sortOrder)
              section == IF g0.g = CodeGroup THEN FormatCodeSection(sorted) ELSE entered.result
              sections == g0.sections \o section
              ng == NextGroup(g0.groups, g0.g)
          IN IF ng = 0
               THEN [entered EXCEPT !.pc = "done", !.codePrompts = sorted,
                                    !.sections = sections, !.out = Trim(sections)]
               ELSE [entered EXCEPT !.codePrompts = sorted, !.sections = sections,
                                    !.g = ng, !.k = 1, !.result = Heading(ng)]

\* generate(this.store.getAll(), sortOrder) is called.
GenStart ==
  /\ gen.pc = "idle"
  /\ \E sortOrder \in SortOrders :
       LET snap == GetAll(items)
           groups == GroupItemsByType(snap, heap)
           g == NextGroup(groups, 0)
       IN gen' = IF Len(snap) = 0
                   THEN [IdleGen EXCEPT !.pc = "done", !.sortOrder = sortOrder,
                                        !.out = NothingSelected]
                   ELSE [IdleGen EXCEPT !.pc = "run", !.snap = snap, !.sortOrder = sortOrder,
                                        !.groups = groups, !.g = g, !.k = 1,
                                        !.result = Heading(g)]
  /\ UNCHANGED <<storeVars, cmds, world, config, formatted, held, ignore>>

\* const content = await this.resolveContent(item.content) settles, and
\* generate runs on to its next await or to its return.
GenStep ==
  /\ gen.pc = "run"
  /\ LET item == heap[gen.groups[gen.g][gen.k]]
         r == ResolveContent(item.content, world)
         rejected == item.content.k = "fn" /\ ~CallGenerator(item.content, world).ok
     IN gen' = IF r.threw
                 THEN [gen EXCEPT !.pc = "done", !.threw = TRUE,
                                  !.resolved = Append(@, [id |-> item.id, v |-> r.v,
                                                          rejected |-> rejected])]
                 ELSE AfterResolve(gen, item, r.v, rejected)
  /\ UNCHANGED <<storeVars, cmds, world, config, formatted, held, ignore>>

\* The caller has the result (generatePrompt opens it as a document).
GenReturn ==
  /\ gen.pc = "done"
  /\ gen' = IdleGen
  /\ UNCHANGED <<storeVars, cmds, world, config, formatted, held, ignore>>

\* A resource changes: a file is edited, deleted or restored, a folder's
\* listing or the staged diff changes.
WorldChange ==
  /\ \E r \in Changing :
       \E val \in Reads(r) :
       /\ \E i \in 1..Len(items) : r = ResourceOf(heap[items[i]])
       /\ val # world[r]
       /\ world' = [world EXCEPT ![r] = val]
  /\ UNCHANGED <<storeVars, cmds, gen, config, formatted, held, ignore>>

\* An add command's store.add of the item a provider created from the
\* resources as they are. Files and selections need a readable document.
KindTemplates(id, w) ==
  { UserInstructionProviderCreate(id, Text1),
    TerminalProviderCreate(id, <<"bash">>, Text1),
    FolderTreeProviderCreate(id, Uri(DirD)),
    GitDiffProviderCreate(id) }
  \cup { FileProviderCreate(id, Uri(PathA), Document(Ts, w[FileRes(Uri(PathA))].v)) :
           x \in {y \in {1} : w[FileRes(Uri(PathA))].ok} }

CodeTemplates(id, w) ==
  { FileProviderCreate(id, Uri(p), Document(Ts, w[FileRes(Uri(p))].v)) :
      p \in {q \in Paths : w[FileRes(Uri(q))].ok} }
  \cup { SnippetProviderCreate(id, Uri(PathA), Ts, 1, 1, w[FileRes(Uri(PathA))].v) :
           x \in {y \in {1} : w[FileRes(Uri(PathA))].ok} }

DynTemplates(id, w) ==
  KindTemplates(id, w) \cup { it \in CodeTemplates(id, w) : it.filePath = PathA }

AddFrom(templates) ==
  /\ nextId <= MaxIds
  /\ \E item \in templates :
       LET r == StoreAdd(items, heap, nextId, item)
       IN /\ items' = r.items
          /\ heap' = r.heap
          /\ lastOp' = Call("add", nextId, 0, 0, r)
  /\ nextId' = nextId + 1
  /\ UNCHANGED others

AddKind == AddFrom(KindTemplates(nextId, world))
AddCode == AddFrom(CodeTemplates(nextId, world))
\* Number of items in the collection while resources change.
MaxDynItems == 2
AddDyn == Len(items) < MaxDynItems /\ AddFrom(DynTemplates(nextId, world))

\* Number of items in the collection while it is changed under a running generate.
MaxRaceItems == 2
AddRace ==
  /\ Len(items) < MaxRaceItems
  /\ AddFrom({it \in CodeTemplates(nextId, world) : it.type = "file"})

\* An editStaticItem that edits whatever the mode and the type of the item.
EditStaticItemAnyMode ==
  \E i \in 1..Len(items), newContent \in {Text2} :
    LET item == heap[items[i]]
        updatedItem ==
          IF item.type = "user-instruction"
            THEN [item EXCEPT !.content = StrContent(newContent), !.title = newContent]
            ELSE [item EXCEPT !.content = StrContent(newContent)]
        r == StoreUpdate(items, heap, item.id, updatedItem)
    IN /\ item.content # StrContent(newContent)
       /\ items' = r.items
       /\ heap' = r.heap
       /\ lastOp' = CallUpdate(item.id, updatedItem, r)
       /\ UNCHANGED <<nextId, others>>

\* editStaticItem(node), the dialog submitted with a changed text:
\* store.update(item.id, {...item, content: newContent}).
EditStaticItem ==
  \E i \in 1..Len(items), newContent \in {Text2} :
    LET item == heap[items[i]]
        updatedItem ==
          IF item.type = "user-instruction"
            THEN [item EXCEPT !.content = StrContent(newContent), !.title = newContent]
            ELSE [item EXCEPT !.content = StrContent(newContent)]
        r == StoreUpdate(items, heap, item.id, updatedItem)
    IN /\ item.mode = "static"
       /\ item.type \in {"terminal", "user-instruction", "snippet"}
       /\ item.content.k = "str" /\ newContent # item.content.v
       /\ items' = r.items
       /\ heap' = r.heap
       /\ lastOp' = CallUpdate(item.id, updatedItem, r)
       /\ UNCHANGED <<nextId, others>>

\* The record kept of a command that returned before any store call.
Returned(op, id) == [NoOp EXCEPT !.op = op, !.id = id]

\* editStaticItem(node) returning without a store call: the item is not in
\* static mode, its type has no editor, or the dialog was cancelled or
\* submitted with the text unchanged (the editor returns undefined).
EditStaticItemRefused ==
  \E i \in 1..Len(items) :
    LET item == heap[items[i]]
    IN /\ \/ item.mode # "static"
          \/ item.type \notin {"terminal", "user-instruction", "snippet"}
          \/ item.content.k = "str"
       /\ lastOp' = Returned("editStaticItem", item.id)
       /\ UNCHANGED <<items, heap, nextId, others>>

\* FormatterService's configuration (loadConfig) with nothing set: the preset
\* and the custom script.
DefaultConfig == [preset |-> "xml", customScript |-> ""]

\* No call of format yet.
NoCall == [item |-> Undefined, content |-> NoText, out |-> NoText]

\* The resources when the extension starts: no temporary file is there.
InitialWorld == [r \in Resources |-> IF r \in TempFiles THEN Fail(ENOENT) ELSE Ok(Text1)]

GenInit ==
  /\ world = InitialWorld
  /\ gen = IdleGen
  /\ config = DefaultConfig
  /\ formatted = NoCall

\* ------------------------------------------------- a caller of getAll()
\* An array as a caller holds it: which array it is (the store's own items
\* array, or one of its own) and its elements.
NoArray == [array |-> "none", elems |-> << >>]

\* A getAll that hands out the store's array.
GetAllArrayLive(its) == [array |-> "items", elems |-> its]

\* getAll(): return [...this.items], a new array with the same elements.
GetAllArray(its) == [array |-> "copy", elems |-> GetAll(its)]

\* A caller calls getAll() and keeps the result.
CallGetAll ==
  /\ held' = GetAllArray(items)
  /\ UNCHANGED <<storeVars, cmds, world, gen, config, formatted, ignore>>

\* The length up to which a caller lets the array it holds grow.
MaxHeld == 2

\* What a caller does to the array it holds: push (of its first element),
\* pop, reverse.
ArrayChanges(elems) ==
  { SubSeq(elems, 1, Len(elems) - 1),
    [i \in 1..Len(elems) |-> elems[Len(elems) + 1 - i]] }
  \cup { Append(elems, elems[1]) : x \in {y \in {1} : Len(elems) < MaxHeld} }

\* The caller changes the array it holds; the array being the store's own,
\* the store's items change with it.
CallerChangesArray ==
  /\ held.array # "none" /\ held.elems # << >>
  /\ \E elems \in ArrayChanges(held.elems) :
       /\ elems # held.elems
       /\ held' = [held EXCEPT !.elems = elems]
       /\ items' = IF held.array = "items" THEN elems ELSE items
  /\ UNCHANGED <<heap, nextId, lastOp, cmds, world, gen, config, formatted, ignore>>

\* A listener of onDidChange, called with the event of a reorder or a clear,
\* changes the items array the event carries (push, pop, reverse) and keeps
\* it. The array being the store's own, the store's items change with it.
ListenerChangesArray ==
  /\ held = NoArray
  /\ lastOp.events # << >>
  /\ LET event == lastOp.events[Len(lastOp.events)]
     IN /\ event.type \in {"reorder", "clear"}
        /\ event.items # << >>
        /\ \E elems \in ArrayChanges(event.items) :
             /\ elems # event.items
             /\ held' = [array |-> IF event.live THEN "items" ELSE "copy", elems |-> elems]
             /\ items' = IF event.live THEN elems ELSE items
  /\ UNCHANGED <<heap, nextId, lastOp, cmds, world, gen, config, formatted, ignore>>

HeldInit == held = NoArray

\* ------------------------------------------------ drag and drop, move up/down
\* The record kept of store.reorder(from, to) called by command cmd for node.
CallFrom(cmd, node, target, from, to, r) ==
  [Call("reorder", node, from, to, r) EXCEPT !.op = cmd, !.target = target, !.before = items]

\* A handleDrop that leaves the target index as it found it.
HandleDropUnadjusted ==
  \E source \in Ids, target \in Ids \cup {Undefined} :
    LET all == GetAll(items)
        sourceIndex == FindIndex(all, heap, source)
        targetIndex == IF target # Undefined THEN FindIndex(all, heap, target) ELSE Len(all)
        r == StoreReorder(items, heap, sourceIndex, targetIndex)
    IN /\ items' = r.items
       /\ heap' = r.heap
       /\ lastOp' = CallFrom("handleDrop", source, target, sourceIndex, targetIndex, r)
       /\ UNCHANGED <<nextId, others>>

\* PromptTreeDataProvider.handleDrop(target, dataTransfer): source is the id of
\* the first node dragged, target the id of the node dropped on, Undefined
\* for a drop on no node.
HandleDrop ==
  \E source \in Ids, target \in Ids \cup {Undefined} :
    LET all == GetAll(items)
        sourceIndex == FindIndex(all, heap, source)
        found == IF target # Undefined THEN FindIndex(all, heap, target) ELSE Len(all)
        targetIndex == IF sourceIndex < found THEN found - 1 ELSE found
        r == StoreReorder(items, heap, sourceIndex, targetIndex)
    IN /\ items' = r.items
       /\ heap' = r.heap
       /\ lastOp' = CallFrom("handleDrop", source, target, sourceIndex, targetIndex, r)
       /\ UNCHANGED <<nextId, others>>

\* A moveItemUp that moves the item to the front.
MoveItemUpToFront ==
  \E node \in Ids :
    LET index == FindIndex(GetAll(items), heap, node)
        r == StoreReorder(items, heap, index, 0)
    IN IF index > 0
         THEN /\ items' = r.items
              /\ heap' = r.heap
              /\ lastOp' = CallFrom("moveItemUp", node, Undefined, index, 0, r)
              /\ UNCHANGED <<nextId, others>>
         ELSE /\ lastOp' = [Returned("moveItemUp", node) EXCEPT !.before = items]
              /\ UNCHANGED <<items, heap, nextId, others>>

\* moveItemUp(node)
MoveItemUp ==
  \E node \in Ids :
    LET index == FindIndex(GetAll(items), heap, node)
        r == StoreReorder(items, heap, index, index - 1)
    IN IF index > 0
         THEN /\ items' = r.items
              /\ heap' = r.heap
              /\ lastOp' = CallFrom("moveItemUp", node, Undefined, index, index - 1, r)
              /\ UNCHANGED <<nextId, others>>
         ELSE /\ lastOp' = [Returned("moveItemUp", node) EXCEPT !.before = items]
              /\ UNCHANGED <<items, heap, nextId, others>>

\* moveItemDown(node)
MoveItemDown ==
  \E node \in Ids :
    LET index == FindIndex(GetAll(items), heap, node)
        r == StoreReorder(items, heap, index, index + 1)
    IN IF index < Len(GetAll(items)) - 1
         THEN /\ items' = r.items
              /\ heap' = r.heap
              /\ lastOp' = CallFrom("moveItemDown", node, Undefined, index, index + 1, r)
              /\ UNCHANGED <<nextId, others>>
         ELSE /\ lastOp' = [Returned("moveItemDown", node) EXCEPT !.before = items]
              /\ UNCHANGED <<items, heap, nextId, others>>

\* The objects referred to from outside the store.
Referenced == Range(held.elems) \cup Range(gen.snap)

\* --------------------------------------------------------- store call steps
Add ==
  /\ nextId <= MaxIds
  /\ \E item \in StoreTemplates(nextId) :
       LET r == StoreAdd(items, heap, nextId, item)
       IN /\ items' = r.items
          /\ heap' = r.heap
          /\ lastOp' = Call("add", nextId, 0, 0, r)
  /\ nextId' = nextId + 1
  /\ UNCHANGED others

Remove ==
  \E id \in Ids :
    LET r == StoreRemove(items, heap, id)
    IN /\ items' = r.items
       /\ heap' = Collect(r.heap, Range(r.items) \cup Referenced)
       /\ lastOp' = Call("remove", id, 0, 0, r)
       /\ UNCHANGED <<nextId, others>>

Update ==
  \E id \in Ids, updates \in StoreUpdates :
    LET r == StoreUpdate(items, heap, id, updates)
    IN /\ items' = r.items
       /\ heap' = r.heap
       /\ lastOp' = CallUpdate(id, updates, r)
       /\ UNCHANGED <<nextId, others>>

\* update(id, updates) as the store's interface admits it: updates is any
\* Partial<PromptItem>, the fields id, type and mode included.
AnyUpdates(id) ==
  { [title |-> Text2, content |-> StrContent(Text2)],
    [id |-> MaxIds, type |-> "file", mode |-> "dynamic"] }

UpdateAny ==
  \E id \in Ids :
    \E updates \in AnyUpdates(id) :
      LET r == StoreUpdate(items, heap, id, updates)
      IN /\ items' = r.items
         /\ heap' = r.heap
         /\ lastOp' = CallUpdate(id, updates, r)
         /\ UNCHANGED <<nextId, others>>

Reorder ==
  \E f \in (-1)..Len(items), t \in (-1)..Len(items) :
    LET r == StoreReorder(items, heap, f, t)
    IN /\ items' = r.items
       /\ heap' = r.heap
       /\ lastOp' = Call("reorder", Undefined, f, t, r)
       /\ UNCHANGED <<nextId, others>>

Clear ==
  LET r == StoreClear(items, heap)
  IN /\ items' = r.items
     /\ heap' = Collect(r.heap, Range(r.items) \cup Referenced)
     /\ lastOp' = Call("clear", Undefined, 0, 0, r)
     /\ UNCHANGED <<nextId, others>>

StoreInit ==
  /\ items = <<>>
  /\ heap = [id \in Ids |-> NoItem]
  /\ nextId = 1
  /\ lastOp = NoOp

vars == <<items, heap, nextId, lastOp, cmds, world, gen, config, formatted, held, ignore>>

Init == StoreInit /\ CmdInit /\ GenInit /\ HeldInit /\ IgnoreInit

Next == Add \/ Remove \/ Update \/ Reorder \/ Clear

Spec == Init /\ [][Next]_vars

\* ================================================================== claims
Count(s, x) == Cardinality({i \in 1..Len(s) : s[i] = x})

\* C1: in every state reached by add, remove, reorder and clear calls (successful
\* or failing), the item at array position i has index = i, so the index values
\* of the stored items are exactly 0..count-1.
C1_IndexDensity ==
  /\ \A i \in 1..Len(items) : heap[items[i]].index = i - 1
  /\ {heap[items[i]].index : i \in 1..Len(items)} = 0..(Len(items) - 1)

\* A three-item store right after a reorder that moved an item.
C1_Witness ==
  /\ lastOp.op = "reorder" /\ lastOp.ok /\ lastOp.from # lastOp.to
  /\ Len(items) = 3

\* The sequence obtained by taking the element at 0-based position f out of s
\* and putting it at position t of the shortened sequence, written position by
\* position.
Shortened(s, f) == [i \in 1..(Len(s) - 1) |-> IF i <= f THEN s[i] ELSE s[i + 1]]
MovedTo(s, f, t) ==
  [i \in 1..Len(s) |->
     IF i <= t THEN Shortened(s, f)[i]
     ELSE IF i = t + 1 THEN s[f + 1]
     ELSE Shortened(s, f)[i - 1]]

InRange(s, i) == i \in 0..(Len(s) - 1)

\* C2: for every pair of positions f, t inside the store (f = t included),
\* reorder(f, t) returns true, getAll() then returns the sequence with the
\* element at f removed and re-inserted at t of the shortened sequence, and the
\* result holds the same items, each exactly once.
C2_ReorderIsMove ==
  [][ (lastOp'.op = "reorder" /\ InRange(items, lastOp'.from) /\ InRange(items, lastOp'.to))
        => /\ lastOp'.ok
           /\ GetAll(items') = MovedTo(items, lastOp'.from, lastOp'.to)
           /\ Len(items') = Len(items)
           /\ \A id \in Ids : Count(items', id) = Count(items, id) /\ Count(items', id) <= 1
    ]_vars

\* A reorder over two positions apart, where a move and a swap differ.
C2_Witness ==
  /\ lastOp.op = "reorder" /\ lastOp.ok
  /\ lastOp.from = 0 /\ lastOp.to = 2 /\ Len(items) = 3

\* Whether the call recorded in op succeeds on the store (its, hp) it is made on.
Succeeds(op, its, hp) ==
  CASE op.op = "add" -> TRUE
    [] op.op = "clear" -> TRUE
    [] op.op \in {"remove", "update"} -> \E i \in 1..Len(its) : hp[its[i]].id = op.id
    [] op.op = "reorder" -> InRange(its, op.from) /\ InRange(its, op.to)
    [] OTHER -> FALSE

\* C9: every successful add, remove, update, reorder and clear fires exactly one
\* event, of the operation's type, and fires it with the mutation complete (the
\* listener sees the final sequence, indices renumbered); a call that fails (the
\* no-op calls that return a failure indicator) fires none.
C9_OneEventAfterMutation ==
  [][ IF Succeeds(lastOp', items, heap)
        THEN /\ Len(lastOp'.events) = 1
             /\ lastOp'.events[1].type = lastOp'.op
             /\ lastOp'.events[1].seen = View(items', heap')
             /\ \A i \in 1..Len(lastOp'.events[1].seen) :
                  lastOp'.events[1].seen[i].index = i - 1
        ELSE lastOp'.events = <<>>
    ]_vars

\* A remove that left two items, one of them behind the removed position.
C9_Witness ==
  /\ lastOp.op = "remove" /\ lastOp.ok /\ Len(lastOp.events) = 1
  /\ Len(items) = 2 /\ \E i \in 1..Len(items) : items[i] > lastOp.item

\* C10: reorder with an index outside [0, length), remove of an unknown id and
\* update of an unknown id return the failure indicator and leave the sequence
\* and every field of every item as they were.
C10_FailedCallsChangeNothing ==
  [][ (lastOp'.op \in {"remove", "update", "reorder"} /\ ~Succeeds(lastOp', items, heap))
        => /\ ~lastOp'.ok
           /\ lastOp'.item = Undefined
           /\ items' = items
           /\ heap' = heap
    ]_vars

\* A refused reorder whose target is one past the end of a non-empty store.
C10_Witness ==
  /\ lastOp.op = "reorder" /\ ~lastOp.ok
  /\ Len(items) >= 2 /\ lastOp.to = Len(items) /\ lastOp.from = 0

\* ------------------------------------------------------------------ SpecCmd
\* The add-file, add-directory and add-opened-files commands, running
\* concurrently: every await is a point where another command may run.
CmdNext ==
  \E c \in CmdIds :
    \/ StartAddFile(c)
    \/ StartAddOpenedFiles(c)
    \/ StatSettles(c)
    \/ CreateSettles(c)
    \/ ListSettles(c)
    \/ Commit(c)

SpecCmd == Init /\ [][CmdNext]_vars

FilePaths(its, hp) == {hp[its[i]].filePath : i \in {j \in 1..Len(its) : hp[its[j]].type = "file"}}

\* C3: under any interleaving of the asynchronous steps of concurrently running
\* add-file, add-directory and add-opened-files commands, the store holds at most
\* one file item per filePath, and a command whose created items all have paths
\* already present leaves the store as it was.
C3_DedupUnderInterleaving ==
  [][ /\ \A i, j \in 1..Len(items') :
           (i # j /\ heap'[items'[i]].type = "file" /\ heap'[items'[j]].type = "file")
             => heap'[items'[i]].filePath # heap'[items'[j]].filePath
      /\ \A c \in CmdIds :
           ( /\ cmds[c].pc = "commit" /\ cmds'[c] # cmds[c]
             /\ \A k \in 1..Len(cmds[c].pending) :
                  cmds[c].pending[k].filePath \in FilePaths(items, heap) )
             => (items' = items /\ heap' = heap)
    ]_vars

\* Two commands raced on one path (both created an item for it before either
\* added it) and the later one was turned away.
C3_Witness ==
  \E c1, c2 \in CmdIds :
    /\ c1 # c2
    /\ cmds[c1].pc = "commit" /\ Len(cmds[c1].pending) = 1
    /\ cmds[c1].pending[1].filePath \in FilePaths(items, heap)
    /\ cmds[c2].pc = "done" /\ cmds[c2].rejected = 0
    /\ \E i \in 1..Len(items) :
         /\ items[i] > cmds[c1].pending[1].id
         /\ heap[items[i]].filePath = cmds[c1].pending[1].filePath

\* ---------------------------------------------- generate over a collection
\* Items of every kind are added and generate is called, concurrently.
GenNext == AddKind \/ GenStart \/ GenStep \/ GenReturn

SpecGen == Init /\ [][GenNext]_vars

\* Files and snippets are added and generate is called with either sort order.
SortNext == AddCode \/ GenStart \/ GenStep \/ GenReturn

SpecSort == Init /\ [][SortNext]_vars

\* Dynamic and static items are added, resources change, static items are
\* edited and generate is called, concurrently.
DynNext == AddDyn \/ WorldChange \/ EditStaticItem \/ GenStart \/ GenStep \/ GenReturn

SpecDyn == Init /\ [][DynNext]_vars

\* ----------------------------------------------------------- FormatterService
\* createContext(item, content).
CreateContext(item, content) ==
  IF item.type \in {"file", "snippet"}
    THEN [filePath |-> item.filePath, language |-> item.language, content |-> content,
          type |-> item.type, lineStart |-> item.lineStart, lineEnd |-> item.lineEnd]
    ELSE [filePath |-> NoText, language |-> NoText, content |-> content,
          type |-> "file", lineStart |-> 0, lineEnd |-> 0]

FormatXml(ctx) ==
  LET src == IF ctx.type = "snippet"
               THEN ctx.filePath \o <<" (lines ">> \o Str(ctx.lineStart) \o <<"-">> \o
                    Str(ctx.lineEnd) \o <<")">>
               ELSE ctx.filePath
  IN <<"<Content src=\"">> \o src \o <<"\" lang=\"">> \o ctx.language \o <<"\">", "\n">> \o
     ctx.content \o <<"\n", "</Content>">>

FormatMarkdown(ctx) ==
  LET lang == IF ctx.language # NoText THEN ctx.language ELSE <<"text">>
  IN <<Fence>> \o lang \o <<"\n">> \o ctx.content \o <<"\n", Fence>>

FormatPlain(ctx) == ctx.content

FormatGitHub(ctx) ==
  LET lang == IF ctx.language # NoText THEN ctx.language ELSE <<"text">>
      filepath == IF ctx.type = "snippet"
                    THEN ctx.filePath \o <<"#L">> \o Str(ctx.lineStart) \o <<"-L">> \o
                         Str(ctx.lineEnd)
                    ELSE ctx.filePath
  IN <<"<!-- filepath: ">> \o filepath \o <<" -->", "\n", Fence>> \o lang \o <<"\n">> \o
     ctx.content \o <<"\n", Fence>>

\* The custom scripts of the settings, by what they define: nothing at all, a
\* format function that returns a string, one that throws, one that returns a
\* number, no format function, and a script that does not compile.
NoScript == ""
Scripts == {NoScript, "format-string", "format-throws", "format-number", "no-function",
            "syntax-error"}

\* compileCustomFormatter(): this.customFormatter, "null" or the function.
CompileCustomFormatter(cfg) ==
  IF cfg.preset # "custom" \/ cfg.customScript = NoScript THEN "null"
  ELSE IF cfg.customScript \in {"no-function", "syntax-error"} THEN "null"
  ELSE cfg.customScript

\* A formatCustom that returns whatever the function returned, as a string.
FormatCustomCoerced(ctx, customFormatter) ==
  IF customFormatter = "null" THEN FormatXml(ctx)
  ELSE IF customFormatter = "format-string"
    THEN <<"// ">> \o ctx.filePath \o <<"\n">> \o ctx.content
  ELSE IF customFormatter = "format-number" THEN <<"42">>
  ELSE FormatXml(ctx)

\* formatCustom(ctx), customFormatter being the compiled function.
FormatCustom(ctx, customFormatter) ==
  IF customFormatter = "null" THEN FormatXml(ctx)
  ELSE IF customFormatter = "format-string"
    THEN <<"// ">> \o ctx.filePath \o <<"\n">> \o ctx.content
  ELSE FormatXml(ctx)

\* format(item, content) under the configuration cfg.
Format(cfg, item, content) ==
  IF item.type \notin {"file", "snippet"} THEN content
  ELSE LET ctx == CreateContext(item, content)
       IN CASE cfg.preset = "xml" -> FormatXml(ctx)
            [] cfg.preset = "markdown" -> FormatMarkdown(ctx)
            [] cfg.preset = "plain" -> FormatPlain(ctx)
            [] cfg.preset = "github" -> FormatGitHub(ctx)
            [] cfg.preset = "custom" -> FormatCustom(ctx, CompileCustomFormatter(cfg))
            [] OTHER -> FormatXml(ctx)

\* The configurations the settings can hold.
Configs ==
  { [preset |-> p, customScript |-> NoScript] : p \in {"xml", "markdown", "plain", "github"} }
  \cup { [preset |-> "custom", customScript |-> s] : s \in Scripts }

\* The extension starts with any configuration.
InitFmt == StoreInit /\ CmdInit /\ HeldInit /\ IgnoreInit /\ world = InitialWorld /\ gen = IdleGen
           /\ config \in Configs /\ formatted = NoCall

SpecFmt == InitFmt /\ [][SortNext]_vars

\* A caller hands an item of the store and a content to format(item, content).
CallFormat ==
  \E i \in 1..Len(items), content \in {Text1, Text2} :
    /\ formatted' = [item |-> items[i], content |-> content,
                     out |-> Format(config, heap[items[i]], content)]
    /\ UNCHANGED <<storeVars, cmds, world, gen, config, held, ignore>>

\* Files and snippets are added and handed to format, under any configuration.
FormatNext == AddCode \/ CallFormat

SpecFormat == InitFmt /\ [][FormatNext]_vars

\* ------------------------------------------------------ claims on generate
\* The section headings, in the order the contract fixes, and the item types
\* each one stands for.
SectionHeadings ==
  <<"### User Instructions ###", "### Terminal Output ###", "### Folder Structure ###",
    "### Git Diff (--cached) ###", "### Sources ###">>
SectionTypes ==
  <<{"user-instruction"}, {"terminal"}, {"tree"}, {"git-diff"}, {"file", "snippet"}>>

\* The headings that occur in a text, in the order in which they occur.
HeadingsIn(text) == SelectSeq(text, LAMBDA tok : tok \in Range(SectionHeadings))

\* The headings of the groups the items its are spread over.
HeadingsOf(its, hp) ==
  LET present == SelectSeq(<<1, 2, 3, 4, 5>>,
                           LAMBDA g : \E i \in 1..Len(its) : hp[its[i]].type \in SectionTypes[g])
  IN [i \in 1..Len(present) |-> SectionHeadings[present[i]]]

\* C4: for a non-empty item sequence the headings in the output of generate are
\* the headings of the groups that hold an item, each once, in the order user
\* instruction, terminal, tree, git diff, code, whatever the order of the
\* items; for the empty sequence the output is the sentinel, with no heading.
C4_SectionHeadings ==
  gen.pc = "done" =>
    IF gen.snap = << >>
      THEN gen.out = NothingSelected /\ HeadingsIn(gen.out) = << >>
      ELSE HeadingsIn(gen.out) = HeadingsOf(gen.snap, heap)

\* Three groups, handed over in the reverse of the order they are rendered in.
C4_Witness ==
  /\ gen.pc = "done" /\ Len(gen.snap) = 3
  /\ heap[gen.snap[1]].type = "file"
  /\ heap[gen.snap[2]].type = "tree"
  /\ heap[gen.snap[3]].type = "user-instruction"
  /\ HeadingsIn(gen.out) = <<SectionHeadings[1], SectionHeadings[3], SectionHeadings[5]>>

\* The first position of a token in a text, and a text split at a separator.
IndexOf(text, tok) ==
  CHOOSE i \in 1..Len(text) : text[i] = tok /\ \A j \in 1..(i - 1) : text[j] # tok
RECURSIVE SplitAt(_, _)
SplitAt(text, sep) ==
  IF \A i \in 1..Len(text) : text[i] # sep THEN <<text>>
  ELSE <<SubSeq(text, 1, IndexOf(text, sep) - 1)>> \o
       SplitAt(SubSeq(text, IndexOf(text, sep) + 1, Len(text)), sep)

\* The paths the outline of a document lists and the blocks of its content
\* part, as a reader of the document finds them.
OutlinePaths(doc) ==
  LET lines == SplitAt(SubSeq(doc, IndexOf(doc, "Outlines:") + 2, IndexOf(doc, "Content:") - 2),
                       "\n")
  IN [i \in 1..Len(lines) |-> Tail(lines[i])]
ContentBlocks(doc) == SplitAt(SubSeq(doc, IndexOf(doc, "Content:") + 2, Len(doc)), "\n\n")

\* The path a code item is displayed under.
DisplayPath(item) ==
  IF item.type = "snippet"
    THEN item.filePath \o <<" (lines ", ToString(item.lineStart), "-",
                            ToString(item.lineEnd), ")">>
    ELSE item.filePath

CodeIds(its, hp) == SelectSeq(its, LAMBDA id : hp[id].type \in {"file", "snippet"})

\* The orders a list of distinct ids can be put in.
Orders(ids) == {e \in [1..Len(ids) -> Range(ids)] : Range(e) = Range(ids)}

\* The text generate resolved the content of item id to.
ResolvedOf(id) ==
  LET i == CHOOSE j \in 1..Len(gen.resolved) : gen.resolved[j].id = id IN gen.resolved[i].v

\* The document lists the code items in the order e: its outline their display
\* paths, its content part their blocks.
ListsInOrder(doc, e) ==
  /\ OutlinePaths(doc) = [i \in 1..Len(e) |-> DisplayPath(heap[e[i]])]
  /\ ContentBlocks(doc) = [i \in 1..Len(e) |-> FormatCodeItem(heap[e[i]], ResolvedOf(e[i])).prompt]

\* The UTF-16 code unit of a token's first character, and the order of two
\* strings by their code units.
CodeUnit(tok) ==
  CASE tok = " (lines " -> 32
    [] tok = ")" -> 41
    [] tok = "-" -> 45
    [] tok = "." -> 46
    [] tok = "/" -> 47
    [] Digit(tok) > 0 -> 48 + Digit(tok)
    [] tok = "B" -> 66
    [] tok = "a" -> 97
    [] tok = "d" -> 100
    [] tok = "s" -> 115
    [] OTHER -> 0
CodeUnitCompare(a, b) ==
  LexCompare([i \in 1..Len(a) |-> CodeUnit(a[i])], [i \in 1..Len(b) |-> CodeUnit(b[i])])

PositionIn(its, id) == CHOOSE i \in 1..Len(its) : its[i] = id

\* e is ordered by index, items of equal index as the input has them.
ByIndex(e) ==
  \A i, j \in 1..Len(e) :
    i < j => /\ heap[e[i]].index <= heap[e[j]].index
             /\ heap[e[i]].index = heap[e[j]].index =>
                  PositionIn(gen.snap, e[i]) < PositionIn(gen.snap, e[j])

\* C5, the order being that of localeCompare: with sortOrder 'filePath' the code entries of the output
\* are in non-decreasing order of display path under localeCompare, the
\* collation of the locale, and with 'openingOrder' in ascending index order,
\* ties keeping input order either way; the outline and the content blocks
\* list the same code items, each exactly once, in that same order.
C5_SortOrder ==
  (gen.pc = "done" /\ CodeIds(gen.snap, heap) # << >>) =>
    \E e \in Orders(CodeIds(gen.snap, heap)) :
      /\ ListsInOrder(gen.out, e)
      /\ IF gen.sortOrder = "filePath"
           THEN \A i, j \in 1..Len(e) :
                  i < j =>
                    /\ LocaleCompare(DisplayPath(heap[e[i]]), DisplayPath(heap[e[j]])) <= 0
                    /\ LocaleCompare(DisplayPath(heap[e[i]]), DisplayPath(heap[e[j]])) = 0 =>
                         PositionIn(gen.snap, e[i]) < PositionIn(gen.snap, e[j])
           ELSE ByIndex(e)

\* Sorted by path: B added first, then the file a and a selection of it.
C5_Witness ==
  /\ gen.pc = "done" /\ gen.sortOrder = "filePath" /\ Len(gen.snap) = 3
  /\ heap[gen.snap[1]].filePath = PathB
  /\ heap[gen.snap[2]].type = "snippet"
  /\ heap[gen.snap[3]].type = "file" /\ heap[gen.snap[3]].filePath = PathA
  /\ OutlinePaths(gen.out) = <<PathA, DisplayPath(heap[gen.snap[2]]), PathB>>

\* C5, the order being that of the strings by code unit: with sortOrder
\* 'filePath' the code entries are in non-decreasing order of display path.
C5_CodeUnitOrder ==
  (gen.pc = "done" /\ gen.sortOrder = "filePath" /\ CodeIds(gen.snap, heap) # << >>) =>
    \A i, j \in 1..Len(OutlinePaths(gen.out)) :
      i < j => CodeUnitCompare(OutlinePaths(gen.out)[i], OutlinePaths(gen.out)[j]) <= 0

\* The document assembled from the items its, the content of item id being
\* c[id]: the sections of the groups that hold items, in the fixed order.
SectionOf(g, ids, hp, sortOrder, c) ==
  IF ids = << >> THEN NoText
  ELSE IF g < 5
    THEN Heading(g) \o Join([i \in 1..Len(ids) |-> FormatEntry(g, hp[ids[i]], c[ids[i]])], NoText)
    ELSE FormatCodeSection(
           SortCodePrompts([i \in 1..Len(ids) |-> FormatCodeItem(hp[ids[i]], c[ids[i]])],
                           sortOrder))
Assembled(its, hp, sortOrder, c) ==
  Trim(Join([g \in 1..5 |->
               SectionOf(g, SelectSeq(its, LAMBDA id : hp[id].type \in SectionTypes[g]),
                         hp, sortOrder, c)], NoText))

Rejected == {i \in 1..Len(gen.resolved) : gen.resolved[i].rejected}

\* C6: if the producer of a dynamic item rejects during generate, generate
\* still returns a document: every other item is rendered as it would be had
\* the failing item succeeded, the failing item's place holds one error marker
\* that embeds the failure message, and generate itself does not fail.
C6_FaultIsolation ==
  (gen.pc = "done" /\ Rejected # {}) =>
    /\ ~gen.threw
    /\ gen.out = Assembled(gen.snap, heap, gen.sortOrder,
                           [id \in Range(gen.snap) |->
                              IF \E i \in Rejected : gen.resolved[i].id = id
                                THEN ErrorMarker(ENOENT) ELSE ResolvedOf(id)])
    /\ Cardinality({i \in 1..Len(gen.out) : gen.out[i] = ErrorMarker(ENOENT)[1]})
         = Cardinality(Rejected)

\* A terminal output and a file that cannot be read any more.
C6_Witness ==
  /\ gen.pc = "done" /\ ~gen.threw /\ Len(gen.snap) = 2
  /\ heap[gen.snap[1]].type = "file" /\ heap[gen.snap[2]].type = "terminal"
  /\ Rejected = {2}
  /\ HeadingsIn(gen.out) = <<SectionHeadings[2], SectionHeadings[5]>>

\* What an item's resource holds, as the item's producer reports it.
ValueOf(item, w) ==
  CASE item.type = "file" ->
         IF w[FileRes(Uri(item.filePath))].ok THEN w[FileRes(Uri(item.filePath))].v
         ELSE ErrorMarker(w[FileRes(Uri(item.filePath))].v)
    [] item.type = "tree" -> item.filePath \o <<"/\n">> \o w[TreeRes(Uri(item.filePath))].v
    [] item.type = "git-diff" -> w[GitRes].v
    [] OTHER -> NoText

\* A text occurs in another.
Contains(text, part) ==
  \E i \in 0..(Len(text) - Len(part)) : SubSeq(text, i + 1, i + Len(part)) = part

DynamicTypes == {"file", "tree", "git-diff"}
StaticTypes == {"snippet", "terminal", "user-instruction"}

\* C7: whatever the resource changes and generate calls, generate renders a
\* dynamic item (file, tree, git diff) with the value its resource has when the
\* item is resolved, and a static item (snippet, terminal, user instruction)
\* with the string it holds, which is the one captured at creation or at its
\* last edit: no change of a resource changes it.
C7_DynamicAndStatic ==
  /\ [](gen.pc = "done" /\ ~gen.threw =>
          \A i \in 1..Len(gen.resolved) : Contains(gen.out, gen.resolved[i].v))
  /\ [][/\ (gen.pc = "run" /\ Len(gen'.resolved) = Len(gen.resolved) + 1) =>
             LET e == gen'.resolved[Len(gen'.resolved)]
             IN /\ heap[e.id].type \in DynamicTypes => e.v = ValueOf(heap[e.id], world)
                /\ heap[e.id].type \in StaticTypes => e.v = heap[e.id].content.v
        /\ \A id \in Ids :
             /\ (heap[id].type \in StaticTypes /\ heap'[id].content # heap[id].content) =>
                  (lastOp'.op = "update" /\ lastOp'.id = id /\ world' = world)
             /\ (heap[id].type = "none" /\ heap'[id].type = "snippet") =>
                  heap'[id].content.v = world[FileRes(Uri(heap'[id].filePath))].v]_vars

\* A file and an earlier selection of it, generated after the file has changed.
C7_Witness ==
  /\ gen.pc = "done" /\ Len(gen.snap) = 2
  /\ heap[gen.snap[1]].type = "snippet" /\ heap[gen.snap[2]].type = "file"
  /\ world[FileRes(Uri(PathA))] = Ok(Text2)
  /\ ResolvedOf(gen.snap[1]) = Text1 /\ ResolvedOf(gen.snap[2]) = Text2
  /\ Contains(gen.out, Text1) /\ Contains(gen.out, Text2)

\* A text ends with another.
EndsWith(text, part) ==
  Len(part) <= Len(text) /\ SubSeq(text, Len(text) - Len(part) + 1, Len(text)) = part

\* C8: under every formatter preset, the content block generate emits for a
\* file or snippet item is the text FormatterService.format returns for the
\* item and its resolved content (behind the line that names the item).
C8_BlocksAreFormatted ==
  (gen.pc = "done" /\ CodeIds(gen.snap, heap) # << >>) =>
    \A i \in 1..Len(CodeIds(gen.snap, heap)) :
      LET id == CodeIds(gen.snap, heap)[i]
      IN \E b \in 1..Len(ContentBlocks(gen.out)) :
           EndsWith(ContentBlocks(gen.out)[b], Format(config, heap[id], ResolvedOf(id)))

\* ------------------------------------------------- further claims on the store
\* The 0-based position of the item with this id in the store, -1 if absent.
PositionOfId(its, hp, id) ==
  IF \E i \in 1..Len(its) : hp[its[i]].id = id
    THEN (CHOOSE i \in 1..Len(its) : hp[its[i]].id = id) - 1
    ELSE -1

\* C11: remove(id) of an id in the store deletes exactly that item and returns
\* it: every other item stays, in the same relative order, with every field
\* but index as before, and the index values are 0..count-1.
C11_RemoveFrame ==
  [][ (lastOp'.op = "remove" /\ PositionOfId(items, heap, lastOp'.id) >= 0)
        => /\ lastOp'.ok
           /\ lastOp'.item = items[PositionOfId(items, heap, lastOp'.id) + 1]
           /\ items' = Shortened(items, PositionOfId(items, heap, lastOp'.id))
           /\ \A j \in 1..Len(items') :
                heap'[items'[j]] = [heap[items'[j]] EXCEPT !.index = j - 1]
    ]_vars

\* The middle item of three has just been removed.
C11_Witness ==
  /\ lastOp.op = "remove" /\ lastOp.ok /\ Len(items) = 2
  /\ items[1] < lastOp.item /\ lastOp.item < items[2]
  /\ heap[items[1]].index = 0 /\ heap[items[2]].index = 1

\* A store that is read through getAll(), whose callers change what they got.
SnapNext == Add \/ Remove \/ CallGetAll \/ CallerChangesArray

SpecSnap == Init /\ [][SnapNext]_vars

\* C12: getAll() returns the current items in index order, as a sequence of
\* its own: adding to, removing from or permuting the returned sequence changes
\* neither the store's items nor what a later query returns.
C12_GetAllIsACopy ==
  [][ /\ (held' # held /\ lastOp' = lastOp /\ held'.elems = items)
          => \A i \in 1..Len(held'.elems) : heap[held'.elems[i]].index = i - 1
      /\ (held' # held /\ held'.array = held.array)
          => /\ items' = items
             /\ heap' = heap
             /\ GetAllArray(items').elems = GetAllArray(items).elems
    ]_vars

\* The caller has reversed the two items it got; the store has them in order.
C12_Witness ==
  /\ Len(items) = 2 /\ held.array # "none"
  /\ held.elems = <<items[2], items[1]>>
  /\ heap[items[1]].index = 0 /\ heap[items[2]].index = 1

\* The store under add, remove and every update its interface admits.
UpdNext == Add \/ Remove \/ UpdateAny

SpecUpd == Init /\ [][UpdNext]_vars

\* An item object keeps its id, type and mode over the step.
KeepsIdentity(obj) ==
  /\ heap'[obj].id = heap[obj].id
  /\ heap'[obj].type = heap[obj].type
  /\ heap'[obj].mode = heap[obj].mode

AddNext ==
  \E c \in CmdIds :
    \/ StartAdd(c, AddKinds)
    \/ ProviderSettles(c)
    \/ CommitAdd(c)

SpecAdd == Init /\ [][AddNext]_vars

IgnNext == Reload \/ AskDirectory \/ AskFile

SpecIgn == Init /\ [][IgnNext]_vars

\* A glob pattern that applies to directories only, and a name matching a
\* pattern (the mark of a directory pattern, the final '/', left aside).
DirectoryOnly(pattern) == EndsWithSlash(pattern)
Matches(pattern, name) ==
  RegexTest(IF DirectoryOnly(pattern) THEN SliceLast(pattern) ELSE pattern, name)

DirConfigs ==
  { DefaultIgnore,
    IgnoreConfig({<<"s">>}, {}, {}, {}),
    IgnoreConfig({NodeModules}, {<<"B">>}, {}, {}),
    IgnoreConfig({}, {}, {<<".", "x">>}, { <<"n", "*", "/">>, <<"*", ".", "P", "Y", "C">> }),
    IgnoreConfig({}, {<<"a">>}, {}, { <<"*", "/">> }) }

InitDir == StoreInit /\ CmdInit /\ GenInit /\ HeldInit
           /\ \E cfg \in DirConfigs : ignore = [config |-> cfg, asked |-> NoQuestion]

\* The add-file command on files and directories.
DirNext ==
  \E c \in CmdIds :
    \/ StartAddFile(c)
    \/ StatSettles(c)
    \/ CreateSettles(c)
    \/ ListSettles(c)
    \/ Commit(c)

SpecDir == InitDir /\ [][DirNext]_vars

\* The names on the way from directory root down to path: the directories
\* entered, then the file's own name.
RECURSIVE SplitPath(_)
SplitPath(p) ==
  IF \E i \in 1..Len(p) : p[i] = "/"
    THEN LET cut == CHOOSE i \in 1..Len(p) : p[i] = "/" /\ \A j \in 1..(i - 1) : p[j] # "/"
         IN <<SubSeq(p, 1, cut - 1)>> \o SplitPath(SubSeq(p, cut + 1, Len(p)))
    ELSE <<p>>
Below(root, path) ==
  Len(path) > Len(root) + 1 /\ SubSeq(path, 1, Len(root) + 1) = root \o <<"/">>
NamesBelow(root, path) == SplitPath(SubSeq(path, Len(root) + 2, Len(path)))

\* path is reached from root through directories that are not ignored, and its
\* own name is not ignored.
Kept(root, path) ==
  LET names == NamesBelow(root, path)
  IN /\ \A k \in 1..(Len(names) - 1) : ~ShouldIgnoreDirectory(names[k])
     /\ ~ShouldIgnoreFile(names[Len(names)])

LiveNext == AddDyn \/ WorldChange \/ GenStart \/ GenStep \/ GenReturn

\* Weak fairness of GenStep, WF_vars(GenStep), with ENABLED <<GenStep>>_vars
\* written out: the step is possible exactly while generate is running.
GenStepFair == []<>(gen.pc # "run") \/ []<><<GenStep>>_vars

SpecLive == Init /\ [][LiveNext]_vars /\ GenStepFair

\* C17: generate never throws, and, every producer it awaits settling in the
\* end, a running generate returns its string in the end.
C17_GenerateCompletes ==
  /\ [](~gen.threw)
  /\ (gen.pc = "run") ~> (gen.pc = "done" /\ ~gen.threw)

\* generate has returned the document of two items, the producer of one of
\* them having rejected.
C17_Witness ==
  /\ gen.pc = "done" /\ ~gen.threw /\ Len(gen.snap) = 2
  /\ Len(gen.resolved) = 2
  /\ \E i \in 1..2 : gen.resolved[i].rejected
  /\ gen.out # NoText

\* generate run while the store is changed: add, reorder and remove are called
\* between the awaits of a running generate.
RaceNext == AddRace \/ Reorder \/ Remove \/ GenStart \/ GenStep \/ GenReturn

SpecRace == Init /\ [][RaceNext]_vars

\* C18: store mutations interleaving with a running generate, the code
\* section of the document returned with 'openingOrder' lists exactly the code
\* items of the snapshot passed to generate, in the order the collection had
\* them in when the snapshot was taken.
C18_SnapshotOrder ==
  (gen.pc = "done" /\ gen.sortOrder = "openingOrder" /\ CodeIds(gen.snap, heap) # << >>) =>
    ListsInOrder(gen.out, CodeIds(gen.snap, heap))

\* The add-user-instruction, edit-static-item and remove commands.
InsNext ==
  \/ \E c \in CmdIds :
       \/ StartAdd(c, {"addUserInstruction"})
       \/ ProviderSettles(c)
       \/ CommitAdd(c)
  \/ EditStaticItem
  \/ Remove

SpecIns == Init /\ [][InsNext]_vars

\* C19: in every state reached through the add-user-instruction,
\* edit-static-item and remove commands, no two user-instruction items of the
\* store have equal content.
C19_InstructionsDiffer ==
  \A i, j \in 1..Len(items) :
    ( /\ i # j
      /\ heap[items[i]].type = "user-instruction"
      /\ heap[items[j]].type = "user-instruction" )
      => heap[items[i]].content # heap[items[j]].content

\* The commands that add snippets, terminal output, folder trees and git
\* diffs, beside add-opened-files, which puts file items into the store.
SnipNext ==
  \E c \in CmdIds :
    \/ StartAddOpenedFiles(c)
    \/ CreateSettles(c)
    \/ Commit(c)
    \/ StartAdd(c, AddKinds \ {"addUserInstruction"})
    \/ ProviderSettles(c)
    \/ CommitAdd(c)

SpecSnip == Init /\ [][SnipNext]_vars

\* The store holds a snippet of the item's path and line bounds.
SameTriple(item) ==
  \E i \in 1..Len(items) :
    /\ heap[items[i]].type = "snippet"
    /\ heap[items[i]].filePath = item.filePath
    /\ heap[items[i]].lineStart = item.lineStart
    /\ heap[items[i]].lineEnd = item.lineEnd

\* The step appends item to the store.
Added(item) ==
  /\ items' = Append(items, item.id)
  /\ heap'[item.id] = [item EXCEPT !.index = Len(items)]
  /\ lastOp'.op = "add" /\ lastOp'.id = item.id

ModeNext ==
  \/ \E c \in CmdIds :
       \/ StartAddOpenedFiles(c)
       \/ CreateSettles(c)
       \/ Commit(c)
       \/ StartAdd(c, AddKinds)
       \/ ProviderSettles(c)
       \/ CommitAdd(c)
  \/ EditStaticItem

SpecMode == Init /\ [][ModeNext]_vars

StaticKinds == {"snippet", "terminal", "user-instruction"}
DynamicKinds == {"file", "tree", "git-diff"}

\* The mode of an item agrees with its content and with its kind.
ModeAgrees(item) ==
  /\ item.mode \in {"static", "dynamic"}
  /\ item.mode = "static" <=> item.content.k = "str"
  /\ item.mode = "dynamic" <=> item.content.k = "fn"
  /\ item.type \in StaticKinds => item.mode = "static"
  /\ item.type \in DynamicKinds => item.mode = "dynamic"
  /\ item.type \in StaticKinds \cup DynamicKinds

\* C21: every item a content source has created, and every item of the store
\* after any sequence of add and edit commands, is static exactly when its
\* content is a string and dynamic exactly when it is a producer; snippet,
\* terminal and user-instruction items are static, file, tree and git-diff
\* items dynamic.
C21_ModeMatchesContent ==
  /\ \A i \in 1..Len(items) : ModeAgrees(heap[items[i]])
  /\ \A c \in CmdIds : \A k \in 1..Len(cmds[c].pending) : ModeAgrees(cmds[c].pending[k])

\* The store holds a file item and a snippet whose content has been edited.
C21_Witness ==
  /\ lastOp.op = "update" /\ lastOp.ok
  /\ \E i, j \in 1..Len(items) :
       /\ heap[items[i]].type = "file" /\ heap[items[i]].content.k = "fn"
       /\ heap[items[j]].type = "snippet" /\ heap[items[j]].id = lastOp.id
       /\ heap[items[j]].content = StrContent(Text2)

\* The commands that add an item edit-static-item has an editor for, one that
\* adds an item it has none for, and edit-static-item.
EditNext ==
  \/ \E c \in CmdIds :
       \/ StartAdd(c, {"addSelection", "addTerminalOutput", "addUserInstruction",
                       "addFolderTree"})
       \/ ProviderSettles(c)
       \/ CommitAdd(c)
  \/ EditStaticItem
  \/ EditStaticItemRefused

SpecEdit == Init /\ [][EditNext]_vars

EditableKinds == {"terminal", "user-instruction", "snippet"}

\* The fields of an item an edit may change.
EditedFields(item) ==
  IF item.type = "user-instruction" THEN {"content", "title"} ELSE {"content"}

\* A step of edit-static-item that called store.update on the item with id.
EditedStep(id) ==
  /\ lastOp'.op = "update" /\ lastOp'.id = id
  /\ lastOp' # lastOp \/ heap' # heap

\* C22: edit-static-item is refused for an item in dynamic mode and for an item
\* of a kind other than terminal, user-instruction and snippet, and a refused
\* edit leaves the store unchanged; a successful edit changes only the content
\* (and, of a user instruction, the title) of the edited item: its id, kind,
\* mode, index and position and every other item are unchanged.
C22_EditFrame ==
  [][ /\ lastOp'.op = "editStaticItem" /\ lastOp' # lastOp =>
           /\ items' = items /\ heap' = heap /\ nextId' = nextId
           /\ lastOp'.events = << >>
      /\ \A id \in Ids : EditedStep(id) =>
           /\ \E i \in 1..Len(items) : items[i] = id
           /\ heap[id].mode = "static" /\ heap[id].type \in EditableKinds
           /\ items' = items /\ nextId' = nextId
           /\ \A o \in Ids \ {id} : heap'[o] = heap[o]
           /\ DOMAIN heap'[id] = DOMAIN heap[id]
           /\ \A f \in DOMAIN heap[id] \ EditedFields(heap[id]) :
                heap'[id][f] = heap[id][f]
           /\ heap'[id].content.k = "str"
    ]_vars

\* An edit of a user instruction behind a folder tree has just succeeded.
C22_Witness ==
  /\ lastOp.op = "update" /\ lastOp.ok
  /\ \E i, j \in 1..Len(items) :
       /\ i < j
       /\ heap[items[i]].type = "tree" /\ heap[items[i]].mode = "dynamic"
       /\ heap[items[j]].id = lastOp.id
       /\ heap[items[j]].type = "user-instruction"
       /\ heap[items[j]].content = StrContent(Text2)
       /\ heap[items[j]].title = Text2

\* The custom scripts whose function throws, returns a non-string, or is not
\* there after compilation.
FailingScripts == {"format-throws", "format-number", "no-function", "syntax-error"}

\* C23: under the custom preset, when the user's function throws, returns a
\* non-string or could not be compiled, format returns exactly the XML
\* rendering of the same content and metadata.
C23_CustomFallsBackToXml ==
  (formatted # NoCall /\ config.preset = "custom" /\ config.customScript \in FailingScripts) =>
    LET item == heap[formatted.item]
    IN formatted.out =
         <<"<Content src=\"">> \o DisplayPath(item) \o <<"\" lang=\"">> \o item.language \o
         <<"\">", "\n">> \o formatted.content \o <<"\n", "</Content>">>

\* A snippet has been formatted under a custom function that returns a number.
C23_Witness ==
  /\ formatted # NoCall /\ config.preset = "custom" /\ config.customScript = "format-number"
  /\ heap[formatted.item].type = "snippet"
  /\ formatted.content = Text2
  /\ Len(formatted.out) > 1

\* The git-diff commands, started with anything staged or nothing.
InitGit ==
  /\ StoreInit /\ CmdInit /\ HeldInit /\ IgnoreInit
  /\ gen = IdleGen /\ config = DefaultConfig /\ formatted = NoCall
  /\ \E staged \in StagedStates : world = [InitialWorld EXCEPT ![GitRes] = staged]

GitNext ==
  \E c \in CmdIds :
    \/ StartGitDiff(c)
    \/ GitExecSettles(c)
    \/ GitReadSettles(c)
    \/ GitUnlinkSettles(c)
    \/ CommitAdd(c)

SpecGit == InitGit /\ [][GitNext]_vars

\* Staged changes exist for the target of a git-diff item.
HasStaged(item) ==
  LET out == DiffCached(world[GitRes], item.content.uri)
  IN out.ok /\ out.v # << >>

\* C24: a git-diff item is created, and added, only when staged changes exist
\* for its target, one file or the whole repository; when there are none,
\* create returns undefined and the store is left as it is.
C24_OnlyWhenStaged ==
  /\ \A c \in CmdIds : \A k \in 1..Len(cmds[c].pending) :
       cmds[c].pending[k].type = "git-diff" => HasStaged(cmds[c].pending[k])
  /\ \A i \in 1..Len(items) :
       heap[items[i]].type = "git-diff" => HasStaged(heap[items[i]])

\* The extension rule alone decides about the file name asked: the name is not
\* in the file list and matches no glob pattern.
ExtensionRuleDecides ==
  /\ ignore.asked.op = "shouldIgnoreFile"
  /\ ignore.asked.name \notin ignore.config.files
  /\ ~\E p \in ignore.config.patterns : ~DirectoryOnly(p) /\ Matches(p, ignore.asked.name)

\* C25: a file is ignored by the extension rule exactly when its last extension
\* segment equals some listed extension, letter case ignored in the file name
\* and in the list entry alike.
C25_ExtensionIgnoresCase ==
  ExtensionRuleDecides =>
    ignore.asked.answer =
      ( /\ Extname(ignore.asked.name) # NoText
        /\ \E e \in ignore.config.extensions :
             ToLowerCase(e) = ToLowerCase(Extname(ignore.asked.name)) )

\* Glob matching as the contract words it: the pattern is matched against the
\* whole name, two stars stand for any run of characters, one star for a run
\* without a separator, a question mark for one character that is no
\* separator and any other character for itself, whatever its case.
RECURSIVE GlobMatches(_, _)
GlobMatches(pattern, name) ==
  LET Drop(k) == SubSeq(name, k + 1, Len(name))
  IN IF pattern = << >> THEN name = << >>
     ELSE IF Len(pattern) >= 2 /\ pattern[1] = "*" /\ pattern[2] = "*"
       THEN \E k \in 0..Len(name) :
              GlobMatches(SubSeq(pattern, 3, Len(pattern)), Drop(k))
     ELSE IF pattern[1] = "*"
       THEN \E k \in 0..Len(name) :
              /\ \A j \in 1..k : name[j] # "/"
              /\ GlobMatches(Tail(pattern), Drop(k))
     ELSE IF pattern[1] = "?"
       THEN name # << >> /\ name[1] # "/" /\ GlobMatches(Tail(pattern), Tail(name))
     ELSE /\ name # << >>
          /\ LowerCaseOf(name[1]) = LowerCaseOf(pattern[1])
          /\ GlobMatches(Tail(pattern), Tail(name))

\* C26: a name asked about under a configuration that lists glob patterns only
\* is ignored exactly when some pattern that applies to it matches the whole
\* name, letter case ignored, with * for any run of non-separator characters,
\* ? for one non-separator character, ** for any run of characters and every
\* other pattern character for itself.
C26_GlobMatching ==
  LET cfg == ignore.config
      name == ignore.asked.name
  IN ( /\ ignore.asked.op \in {"shouldIgnoreDirectory", "shouldIgnoreFile"}
       /\ cfg.directories = {} /\ cfg.files = {} /\ cfg.extensions = {} ) =>
       ignore.asked.answer =
         \E p \in cfg.patterns :
           IF DirectoryOnly(p)
             THEN ignore.asked.op = "shouldIgnoreDirectory" /\ GlobMatches(SliceLast(p), name)
             ELSE GlobMatches(p, name)

\* C27: when createFromDirectory has collected a directory, no error message
\* has been shown for any file, readable or not, and the list holds every
\* readable file that is reached and not ignored.
C27_UnreadableSkippedSilently ==
  [][ \A c \in CmdIds :
        (cmds[c].pc = "list" /\ cmds'[c].pc = "commit") =>
          LET root == Head(cmds[c].queue)
              readable == cmds'[c].readable
          IN /\ cmds'[c].errors = << >>
             /\ {cmds'[c].pending[k].filePath : k \in 1..Len(cmds'[c].pending)}
                  = {f \in Files : Below(root, f) /\ f \in readable /\ Kept(root, f)} ]_vars

\* The store under add, reorder and clear, with a listener that changes the
\* array an event has handed to it.
ListenNext == Add \/ Reorder \/ Clear \/ ListenerChangesArray

SpecListen == Init /\ [][ListenNext]_vars

\* C28: the items array a reorder or clear event carries is a snapshot: a
\* listener that changes the array it received changes neither the store's
\* sequence nor the items, and the indices stay dense.
C28_EventsCarrySnapshots ==
  [][ (held' # held /\ lastOp' = lastOp) =>
        /\ items' = items
        /\ heap' = heap
        /\ \A i \in 1..Len(items') : heap'[items'[i]].index = i - 1 ]_vars

\* Items are added and removed, dragged and dropped, and moved up and down.
MoveNext == Add \/ Remove \/ HandleDrop \/ MoveItemUp \/ MoveItemDown

SpecMove == Init /\ [][MoveNext]_vars

\* The ids of the items of an array, its position of an id (0 when absent) and
\* the array without the item of an id.
IdsOf(its) == [i \in 1..Len(its) |-> heap[its[i]].id]
PlaceOf(ids, id) == IF \E i \in 1..Len(ids) : ids[i] = id
                      THEN CHOOSE i \in 1..Len(ids) : ids[i] = id ELSE 0
Without(ids, id) == SelectSeq(ids, LAMBDA e : e # id)

\* C29: a drop of item S on another item T puts S immediately before T, a drop
\* of S on no item puts S at the end, the other items keeping their order; a
\* drop of S on itself, and a drop of an item that is not in the store, leave
\* the order as it was.
C29_DropMovesBeforeTarget ==
  [][ lastOp'.op = "handleDrop" =>
        LET S == lastOp'.id
            T == lastOp'.target
            old == IdsOf(items)
            new == [i \in 1..Len(items') |-> heap'[items'[i]].id]
        IN /\ Without(new, S) = Without(old, S)
           /\ Len(new) = Len(old)
           /\ (PlaceOf(old, S) = 0 \/ S = T) => new = old
           /\ (PlaceOf(old, S) > 0 /\ T = Undefined) => new[Len(new)] = S
           /\ (PlaceOf(old, S) > 0 /\ T # S /\ PlaceOf(old, T) > 0) =>
                /\ PlaceOf(new, S) > 0
                /\ PlaceOf(new, T) = PlaceOf(new, S) + 1 ]_vars

\* The first of three items has been dropped on the third and stands second.
C29_Witness ==
  /\ lastOp.op = "handleDrop" /\ lastOp.ok
  /\ Len(lastOp.before) = 3
  /\ lastOp.id = heap[lastOp.before[1]].id
  /\ lastOp.target = heap[lastOp.before[3]].id
  /\ items = <<lastOp.before[2], lastOp.before[1], lastOp.before[3]>>

\* The array with the elements at the 1-based positions i and j exchanged.
Exchanged(s, i, j) ==
  [k \in 1..Len(s) |-> IF k = i THEN s[j] ELSE IF k = j THEN s[i] ELSE s[k]]

\* C30: moveItemUp on the item at position i > 0 exchanges it with the item at
\* i - 1 and moveItemDown on the item at i < count - 1 with the item at i + 1,
\* nothing else changing, so that an up followed by a down of the same item
\* restores the order; moveItemUp on the first item, moveItemDown on the last
\* and either on an item that is not in the store change nothing and fire no
\* event.
C30_MoveUpAndDown ==
  [][ LET p == PlaceOf(IdsOf(items), lastOp'.id)
      IN /\ lastOp'.op = "moveItemUp" =>
              IF p > 1
                THEN /\ items' = Exchanged(items, p, p - 1)
                     /\ \A o \in Ids : heap'[o] = [heap[o] EXCEPT !.index = heap'[o].index]
                ELSE items' = items /\ heap' = heap /\ lastOp'.events = << >>
         /\ lastOp'.op = "moveItemDown" =>
              IF p > 0 /\ p < Len(items)
                THEN /\ items' = Exchanged(items, p, p + 1)
                     /\ \A o \in Ids : heap'[o] = [heap[o] EXCEPT !.index = heap'[o].index]
                ELSE items' = items /\ heap' = heap /\ lastOp'.events = << >>
         /\ ( /\ lastOp.op = "moveItemUp" /\ lastOp.ok
              /\ lastOp'.op = "moveItemDown" /\ lastOp'.id = lastOp.id ) =>
              /\ items' = lastOp.before
              /\ \A i \in 1..Len(items') : heap'[items'[i]].index = i - 1
    ]_vars

\* The third of three items has been moved up and down again.
C30_Witness ==
  /\ lastOp.op = "moveItemDown" /\ lastOp.ok /\ Len(items) = 3
  /\ lastOp.id = heap[items[3]].id
  /\ lastOp.before = <<items[1], items[3], items[2]>>
  /\ \A i \in 1..Len(items) : heap[items[i]].index = i - 1
====
